---- MODULE Spec2Model ----
(***************************************************************************)
(* Model of the document-enrichment pipeline of src/main.py: the geocode   *)
(* resolver with its process-wide cache, the location step, the date step  *)
(* and the text extractors they call; and of the query constructor: the    *)
(* smart search of src/main.py with its temporal filter and its            *)
(* post-processing, and the smart search of src/query_engine.py.           *)
(*                                                                         *)
(* Strings that the code trims, lower-cases, collapses or matches against  *)
(* a regular expression are sequences of one-character strings, so that    *)
(* each conversion is computed the way the code computes it.  A text is a  *)
(* sequence of tokens; a token is one maximal match of one of the code's   *)
(* patterns (or one entity span of the NER service), or a plain word.      *)
(***************************************************************************)
EXTENDS Integers, Sequences, FiniteSets, TLC

VARIABLES
    NLP_AVAILABLE,   \* main.py:22-27, whether the spaCy model was loaded
    GEOCODE_CACHE,   \* main.py:94, key -> point or the failure sentinel
    log,             \* history: external geocoding calls, sleeps and cache hits, in order
    document,        \* the document being enriched (mutated in place); the batch, for a request to index
    input,           \* history: the document (or batch) as it arrived
    op,              \* history: the last operation that ran
    args,            \* history: the arguments of the last operation
    result           \* history: the value the last operation returned

vars == <<NLP_AVAILABLE, GEOCODE_CACHE, log, document, input, op, args, result>>

(***************************************************************************)
(* Bounds                                                                  *)
(***************************************************************************)
MaxLog == 4        \* longest recorded history of geocoding events
MaxNames == 2      \* longest list of names handed to geocode_locations or supplied as georeferences
MaxTextLen == 2    \* most tokens in the content of a document
MaxRun == 11       \* longest run of distinct dates in a text

(***************************************************************************)
(* Characters and the string operations of the code                        *)
(***************************************************************************)
SP == " "
TAB == "\t"

IsSpace(c) == c \in {SP, TAB}

\* str.lower() on one character
LowerChar(c) ==
    CASE c = "A" -> "a"
      [] c = "B" -> "b"
      [] c = "N" -> "n"
      [] OTHER -> c

\* str.lower()
Lower(s) == [i \in 1..Len(s) |-> LowerChar(s[i])]

RECURSIVE LStrip(_)
LStrip(s) == IF s # <<>> /\ IsSpace(Head(s)) THEN LStrip(Tail(s)) ELSE s

RECURSIVE RStrip(_)
RStrip(s) ==
    IF s # <<>> /\ IsSpace(s[Len(s)]) THEN RStrip(SubSeq(s, 1, Len(s) - 1)) ELSE s

\* str.strip()
Strip(s) == RStrip(LStrip(s))

\* re.sub(r"\s+", " ", s): every run of whitespace becomes one space
RECURSIVE CollapseWs(_)
CollapseWs(s) ==
    IF s = <<>> THEN <<>>
    ELSE IF IsSpace(Head(s))
         THEN <<SP>> \o CollapseWs(LStrip(Tail(s)))
         ELSE <<Head(s)>> \o CollapseWs(Tail(s))

(***************************************************************************)
(* Geocode resolver, main.py:94-122                                        *)
(***************************************************************************)
\* the value None stored for a name that failed to resolve
NoneV == [p |-> "none", lat |-> 0, lon |-> 0]

\* {"lat": ..., "lon": ...}
Pt(a, b) == [p |-> "point", lat |-> a, lon |-> b]

\* the point the geocoding service knows for a name; the service ignores case
\* and surrounding blanks, as the cache key does
place_point(key) ==
    CASE key = <<"a">> -> Pt(1, 1)
      [] key = <<"b">> -> Pt(2, 2)
      [] OTHER -> Pt(3, 3)

\* what geolocator.geocode(name, timeout=5) can do: return the location,
\* return None, or raise (timeout, network or service error)
Outcomes == {"point", "notfound", "error"}

\* key = str(name).strip().lower()
cache_key(name) == Lower(Strip(name))

Ev(e, key, out) == [e |-> e, key |-> key, out |-> out]

\* the except branch: GEOCODE_CACHE[key] = None
on_geocode_error_nostore(cache, key) == cache

on_geocode_error(cache, key) == (key :> NoneV) @@ cache

\* the else branch of "if loc" leaving the cache alone
on_geocode_notfound_nostore(cache, key) == cache

\* the else branch of "if loc": GEOCODE_CACHE[key] = None
on_geocode_notfound(cache, key) == (key :> NoneV) @@ cache

\* the loop of geocode_locations from names[i] on, i <= n; answers[key] is what
\* the geocoding service does when it is called for a name with that key
RECURSIVE geocode_loop(_, _, _, _, _, _, _)
geocode_loop(names, i, n, cache, points, evs, answers) ==
    IF i > n THEN [points |-> points, cache |-> cache, evs |-> evs]
    ELSE LET name == names[i]
             key == cache_key(name)
         IN  IF key = <<>>
             THEN geocode_loop(names, i + 1, n, cache, points, evs, answers)
             ELSE IF key \in DOMAIN cache
             THEN geocode_loop(names, i + 1, n, cache,
                      IF cache[key].p = "point" THEN Append(points, cache[key]) ELSE points,
                      Append(evs, Ev("hit", key, cache[key].p)), answers)
             ELSE IF answers[key] = "error"
             THEN geocode_loop(names, i + 1, n, on_geocode_error(cache, key), points,
                      Append(evs, Ev("call", key, "error")), answers)
             ELSE IF answers[key] = "point"
             THEN geocode_loop(names, i + 1, n, (key :> place_point(key)) @@ cache,
                      Append(points, place_point(key)),
                      evs \o <<Ev("call", key, "point"), Ev("sleep", key, "-")>>, answers)
             ELSE geocode_loop(names, i + 1, n, on_geocode_notfound(cache, key), points,
                      evs \o <<Ev("call", key, "notfound"), Ev("sleep", key, "-")>>, answers)

Min(a, b) == IF a < b THEN a ELSE b

Range(s) == { s[i] : i \in 1..Len(s) }

\* geocode_locations without the [:limit] slice: every name is attempted (a
\* name past the limit that the service was not asked about is not found)
geocode_locations_unlimited(location_names, limit, cache, answers) ==
    geocode_loop(location_names, 1, Len(location_names), cache, <<>>, <<>>,
                 [k \in { Lower(Strip(n)) : n \in Range(location_names) } |->
                     IF k \in DOMAIN answers THEN answers[k] ELSE "notfound"])

\* geocode_locations returning its points last name first
geocode_locations_reversed(location_names, limit, cache, answers) ==
    LET r == geocode_loop(location_names, 1, Min(limit, Len(location_names)),
                          cache, <<>>, <<>>, answers)
    IN  [r EXCEPT !.points = [i \in 1..Len(r.points) |-> r.points[Len(r.points) + 1 - i]]]

\* geocode_locations(location_names, limit): the points, the cache afterwards
\* and the external events, for location_names[:limit]
geocode_locations(location_names, limit, cache, answers) ==
    geocode_loop(location_names, 1, Min(limit, Len(location_names)), cache, <<>>, <<>>, answers)

(***************************************************************************)
(* Inputs of the geocode resolver                                          *)
(***************************************************************************)
GeoNames == { <<"A">>, <<SP, "a">>, <<"B">>, <<SP>> }

KeysOf(names) == { cache_key(n) : n \in names } \ { <<>> }

RECURSIVE SeqsUpTo(_, _)
SeqsUpTo(S, n) ==
    IF n = 0 THEN { <<>> }
    ELSE LET shorter == SeqsUpTo(S, n - 1)
         IN  shorter \cup { Append(s, x) : s \in { t \in shorter : Len(t) = n - 1 }, x \in S }

Limits == {1, 5}

NameLists == SeqsUpTo(GeoNames, MaxNames)

(***************************************************************************)
(* Tokens of a text                                                        *)
(***************************************************************************)
\* k = "place": an entity span labelled GPE/LOC/FAC with surface text s
\* k = "iso":   YYYY-MM-DD          k = "us":    M/D/Y (y as written, 2 to 4 digits)
\* k = "month": Month D, YYYY       k = "year":  a bare 4-digit number
\* k = "word":  anything else
Tok(k, y, m, d, s) == [k |-> k, y |-> y, m |-> m, d |-> d, s |-> s]

Place(s) == Tok("place", 0, 0, 0, s)

(***************************************************************************)
(* Documents                                                               *)
(***************************************************************************)
\* a field that may be missing carries p = "absent"; p = "none" is the value None
AbsentStr == [p |-> "absent", s |-> <<>>]
NoneStr == [p |-> "none", s |-> <<>>]
Str(s) == [p |-> "str", s |-> s]

AbsentList == [p |-> "absent", l |-> <<>>]
List(l) == [p |-> "list", l |-> l]

\* georeferences: missing, one string, or a list of strings
AbsentGeo == [p |-> "absent", s |-> <<>>, l |-> <<>>]
GeoStr(s) == [p |-> "str", s |-> s, l |-> <<>>]
GeoList(l) == [p |-> "list", s |-> <<>>, l |-> l]

AbsentSrc == [p |-> "absent", v |-> ""]
Src(v) == [p |-> "str", v |-> v]

AbsentPt == [p |-> "absent", lat |-> 0, lon |-> 0]

Doc(title, content, date, extracted_dates, georeferences, location_source, geo_points, geopoint) ==
    [title |-> title, content |-> content, date |-> date,
     extracted_dates |-> extracted_dates, georeferences |-> georeferences,
     location_source |-> location_source, geo_points |-> geo_points, geopoint |-> geopoint]

EmptyDoc == Doc(<<>>, <<>>, AbsentStr, AbsentList, AbsentGeo, AbsentSrc, AbsentList, AbsentPt)

(***************************************************************************)
(* Geo extractor, main.py:53-90                                            *)
(***************************************************************************)
\* raw = [ent.text.strip() for ent in doc.ents if ent.label_ in [GPE, LOC, FAC]]
RECURSIVE place_spans(_)
place_spans(text) ==
    IF text = <<>> THEN <<>>
    ELSE IF Head(text).k = "place"
         THEN <<Strip(Head(text).s)>> \o place_spans(Tail(text))
         ELSE place_spans(Tail(text))

\* norm = re.sub(r"\s+", " ", loc).strip()
norm_surface(loc) == Strip(CollapseWs(loc))

\* the dedup loop with the surface form itself as the key
RECURSIVE dedup_locations_by_surface(_, _, _)
dedup_locations_by_surface(raw, seen, cleaned) ==
    IF raw = <<>> THEN cleaned
    ELSE LET norm == norm_surface(Head(raw))
         IN  IF norm # <<>> /\ norm \notin seen
             THEN dedup_locations_by_surface(Tail(raw), seen \cup {norm}, Append(cleaned, norm))
             ELSE dedup_locations_by_surface(Tail(raw), seen, cleaned)

\* the dedup loop of extract_all_locations: key = norm.lower()
RECURSIVE dedup_locations(_, _, _)
dedup_locations(raw, seen, cleaned) ==
    IF raw = <<>> THEN cleaned
    ELSE LET norm == norm_surface(Head(raw))
             key == Lower(norm)
         IN  IF key # <<>> /\ key \notin seen
             THEN dedup_locations(Tail(raw), seen \cup {key}, Append(cleaned, norm))
             ELSE dedup_locations(Tail(raw), seen, cleaned)

extract_all_locations(text, nlp) ==
    IF text = <<>> \/ ~nlp THEN <<>>
    ELSE dedup_locations(place_spans(text), {}, <<>>)

\* norm = [re.sub(r"\s+", " ", x).lower().strip() for x in raw]
norm_key(x) == Strip(Lower(CollapseWs(x)))

Count(s, x) == Cardinality({ i \in 1..Len(s) : s[i] = x })

\* the most frequent key, the one inserted last among equally frequent keys
most_common_last(norm) ==
    LET best == CHOOSE i \in 1..Len(norm) :
                    /\ \A j \in 1..Len(norm) : Count(norm, norm[j]) <= Count(norm, norm[i])
                    /\ \A j \in (i + 1)..Len(norm) : Count(norm, norm[j]) < Count(norm, norm[i])
    IN  norm[best]

\* Counter(norm).most_common(1)[0][0]: the most frequent key, the one inserted
\* first among equally frequent keys
most_common(norm) ==
    LET best == CHOOSE i \in 1..Len(norm) :
                    /\ \A j \in 1..Len(norm) : Count(norm, norm[j]) <= Count(norm, norm[i])
                    /\ \A j \in 1..(i - 1) : Count(norm, norm[j]) < Count(norm, norm[i])
    IN  norm[best]

extract_most_frequent_location(text, nlp) ==
    IF text = <<>> \/ ~nlp THEN NoneStr
    ELSE LET raw == place_spans(text)
         IN  IF raw = <<>> THEN NoneStr
             ELSE LET norm == [i \in 1..Len(raw) |-> norm_key(raw[i])]
                      top_norm == most_common(norm)
                      first == CHOOSE i \in 1..Len(raw) :
                                   /\ norm_key(raw[i]) = top_norm
                                   /\ \A j \in 1..(i - 1) : norm_key(raw[j]) # top_norm
                  IN  Str(norm_surface(raw[first]))

(***************************************************************************)
(* Location step, main.py:126-154                                          *)
(***************************************************************************)
\* text = ((content or "") + " " + (title or "")).strip()
location_text(doc) == doc.content \o doc.title

\* existing = document.get("georeferences") or []; a string becomes a one-element list
existing_georeferences(doc) ==
    CASE doc.georeferences.p = "str" ->
             IF doc.georeferences.s = <<>> THEN <<>> ELSE <<doc.georeferences.s>>
      [] doc.georeferences.p = "list" -> doc.georeferences.l
      [] OTHER -> <<>>

\* [str(x).strip() for x in existing if str(x).strip()]
RECURSIVE stripped_nonblank(_)
stripped_nonblank(names) ==
    IF names = <<>> THEN <<>>
    ELSE IF Strip(Head(names)) # <<>>
         THEN <<Strip(Head(names))>> \o stripped_nonblank(Tail(names))
         ELSE stripped_nonblank(Tail(names))

\* list(dict.fromkeys(xs)): first occurrences, equal strings dropped
RECURSIVE dict_fromkeys(_, _)
dict_fromkeys(xs, acc) ==
    IF xs = <<>> THEN acc
    ELSE IF Head(xs) \in Range(acc)
         THEN dict_fromkeys(Tail(xs), acc)
         ELSE dict_fromkeys(Tail(xs), Append(acc, Head(xs)))

\* document.get("location_source", "from-places")
supplied_location_source_ignored(doc) == Src("from-places")

supplied_location_source(doc) ==
    IF doc.location_source.p = "absent" THEN Src("from-places") ELSE doc.location_source

\* lines 129-143: georeferences and location_source
set_georeferences(doc, nlp) ==
    LET existing == existing_georeferences(doc)
        all_locs == extract_all_locations(location_text(doc), nlp)
    IN  IF existing # <<>>
        THEN [doc EXCEPT !.georeferences = GeoList(dict_fromkeys(stripped_nonblank(existing), <<>>)),
                         !.location_source = supplied_location_source(doc)]
        ELSE IF all_locs # <<>>
        THEN [doc EXCEPT !.georeferences = GeoList(all_locs),
                         !.location_source = Src("auto-extracted")]
        ELSE [doc EXCEPT !.georeferences = GeoList(<<>>),
                         !.location_source = Src("default")]

\* the NER service is run by an extractor unless it returns early, main.py:54-57, 74-76
ner_run(text, nlp) == IF text = <<>> \/ ~nlp THEN <<>> ELSE <<Ev("ner", <<>>, "-")>>

\* line 137: extract_all_locations(text) is called only without georeferences
set_georeferences_events(doc, nlp) ==
    IF existing_georeferences(doc) # <<>> THEN <<>> ELSE ner_run(location_text(doc), nlp)

\* the location step geocoding whether or not it is asked to
geocode_regardless(doc, do_geocode, geo_limit, nlp, cache, answers1, answers2) ==
    LET d1 == set_georeferences(doc, nlp)
        r1 == geocode_locations(d1.georeferences.l, geo_limit, cache, answers1)
    IN  [doc |-> [d1 EXCEPT !.geo_points = List(r1.points)], cache |-> r1.cache,
         evs |-> set_georeferences_events(doc, nlp) \o r1.evs]

\* ensure_document_has_location(document, do_geocode, geo_limit); answers1 and
\* answers2 are what the geocoding service does in the two geocode_locations
\* calls; evs are the runs of the NER service and the geocoding events, in order
ensure_document_has_location(doc, do_geocode, geo_limit, nlp, cache, answers1, answers2) ==
    LET d1 == set_georeferences(doc, nlp)
        ner1 == set_georeferences_events(doc, nlp)
    IN  IF do_geocode /\ d1.georeferences.l # <<>>
        THEN LET r1 == geocode_locations(d1.georeferences.l, geo_limit, cache, answers1)
                 d2 == [d1 EXCEPT !.geo_points = List(r1.points)]
                 main_loc == extract_most_frequent_location(location_text(doc), nlp)
                 ner2 == ner_run(location_text(doc), nlp)
             IN  IF main_loc.p = "str" /\ main_loc.s # <<>>
                 THEN LET r2 == geocode_locations(<<main_loc.s>>, 1, r1.cache, answers2)
                      IN  [doc |-> IF r2.points # <<>>
                                   THEN [d2 EXCEPT !.geopoint = r2.points[1]]
                                   ELSE d2,
                           cache |-> r2.cache, evs |-> ner1 \o r1.evs \o ner2 \o r2.evs]
                 ELSE [doc |-> d2, cache |-> r1.cache, evs |-> ner1 \o r1.evs \o ner2]
        ELSE [doc |-> d1, cache |-> cache, evs |-> ner1]

(***************************************************************************)
(* State                                                                   *)
(***************************************************************************)
NoArgs == [none |-> TRUE]

EmptyCache == [k \in {} |-> NoneV]

InitCommon ==
    /\ GEOCODE_CACHE = EmptyCache
    /\ log = <<>>
    /\ op = "none"
    /\ args = NoArgs
    /\ result = <<>>

(***************************************************************************)
(* A caller invokes geocode_locations                                      *)
(***************************************************************************)
GeocodeCall ==
    \E names \in NameLists, limit \in Limits :
      \E answers \in [KeysOf(Range(SubSeq(names, 1, Min(limit, Len(names))))) -> Outcomes] :
        LET r == geocode_locations(names, limit, GEOCODE_CACHE, answers)
        IN  /\ Len(log) + Len(r.evs) <= MaxLog
            /\ GEOCODE_CACHE' = r.cache
            /\ log' = log \o r.evs
            /\ op' = "geocode_locations"
            /\ args' = [names |-> names, limit |-> limit]
            /\ result' = r.points
            /\ UNCHANGED <<NLP_AVAILABLE, document, input>>

(***************************************************************************)
(* Calendar dates and their text forms                                     *)
(***************************************************************************)
\* a datetime value
Dt(y, m, d, hh, mm, ss) == [y |-> y, m |-> m, d |-> d, hh |-> hh, mm |-> mm, ss |-> ss]

\* the value None where a datetime is expected
NoDt == Dt(0, 0, 0, 0, 0, 0)

IsLeap(y) == (y % 4 = 0 /\ y % 100 # 0) \/ y % 400 = 0

DaysInMonth(y, m) ==
    IF m = 2 THEN (IF IsLeap(y) THEN 29 ELSE 28)
    ELSE IF m \in {4, 6, 9, 11} THEN 30 ELSE 31

\* datetime(y, mo, d) raises ValueError unless this holds
valid_date(y, m, d) ==
    /\ y >= 1 /\ y <= 9999
    /\ m >= 1 /\ m <= 12
    /\ d >= 1 /\ d <= DaysInMonth(y, m)

DigitChars == <<"0", "1", "2", "3", "4", "5", "6", "7", "8", "9">>

IsDigit(c) == c \in Range(DigitChars)

DigitVal(c) == CHOOSE v \in 0..9 : DigitChars[v + 1] = c

\* int("...") of a string of digits
RECURSIVE ToInt(_)
ToInt(digits) ==
    IF digits = <<>> THEN 0
    ELSE 10 * ToInt(SubSeq(digits, 1, Len(digits) - 1)) + DigitVal(digits[Len(digits)])

Pad2(n) == <<DigitChars[((n \div 10) % 10) + 1], DigitChars[(n % 10) + 1]>>

Pad4(n) == Pad2(n \div 100) \o Pad2(n % 100)

\* dt.strftime("%Y-%m-%dT%H:%M:%S"), for years of four digits
strftime(dt) ==
    Pad4(dt.y) \o <<"-">> \o Pad2(dt.m) \o <<"-">> \o Pad2(dt.d) \o <<"T">>
        \o Pad2(dt.hh) \o <<":">> \o Pad2(dt.mm) \o <<":">> \o Pad2(dt.ss)

\* d.date().isoformat(), the key of the dedup
date_key(dt) == <<dt.y, dt.m, dt.d>>

\* dt1 < dt2 on datetimes
DtLess(a, b) ==
    LET da == (a.y * 100 + a.m) * 100 + a.d
        db == (b.y * 100 + b.m) * 100 + b.d
        ta == (a.hh * 100 + a.mm) * 100 + a.ss
        tb == (b.hh * 100 + b.mm) * 100 + b.ss
    IN  da < db \/ (da = db /\ ta < tb)

(***************************************************************************)
(* normalize_date_value, main.py:166-194                                   *)
(***************************************************************************)
AllDigits(s, from, to) == \A i \in from..to : IsDigit(s[i])

\* ^\d{4}-\d{2}-\d{2}T\d{2}:\d{2}:\d{2} at the start of s
iso_prefix(s) ==
    /\ Len(s) >= 19
    /\ AllDigits(s, 1, 4) /\ s[5] = "-" /\ AllDigits(s, 6, 7) /\ s[8] = "-"
    /\ AllDigits(s, 9, 10) /\ s[11] = "T" /\ AllDigits(s, 12, 13) /\ s[14] = ":"
    /\ AllDigits(s, 15, 16) /\ s[17] = ":" /\ AllDigits(s, 18, 19)

RECURSIVE SkipDigits(_)
SkipDigits(s) == IF s # <<>> /\ IsDigit(Head(s)) THEN SkipDigits(Tail(s)) ELSE s

\* what is left of rest after the optional group (\.\d+)?
after_fraction(rest) ==
    IF Len(rest) >= 2 /\ rest[1] = "." /\ IsDigit(rest[2])
    THEN SkipDigits(Tail(rest))
    ELSE rest

\* (Z)?$
z_or_end(rest) == rest = <<>> \/ rest = <<"Z">>

\* ([+-]\d{2}:\d{2})$
offset_end(rest) ==
    /\ Len(rest) = 6
    /\ rest[1] \in {"+", "-"}
    /\ AllDigits(rest, 2, 3) /\ rest[4] = ":" /\ AllDigits(rest, 5, 6)

\* the first pattern of normalize_date_value matches s
match_iso_z(s) == iso_prefix(s) /\ z_or_end(after_fraction(SubSeq(s, 20, Len(s))))

\* the second pattern of normalize_date_value matches s
match_iso_offset(s) == iso_prefix(s) /\ offset_end(after_fraction(SubSeq(s, 20, Len(s))))

\* normalize_date_value(value); parsed is what dateparser.parse(s) returns when
\* it is reached (NoDt for None); the result is a string or None
normalize_date_value(value, parsed) ==
    IF value.p # "str" \/ value.s = <<>> THEN NoneStr
    ELSE LET s == Strip(value.s)
         IN  IF match_iso_z(s) THEN Str(SubSeq(s, 1, 19))
             ELSE IF match_iso_offset(s) THEN Str(SubSeq(s, 1, 19))
             ELSE IF parsed # NoDt THEN Str(strftime(parsed))
             ELSE NoneStr

(***************************************************************************)
(* parse_date_candidates_from_text, main.py:198-245                        *)
(***************************************************************************)
Iso(y, m, d) == Tok("iso", y, m, d, <<>>)
\* the year of a slash date is kept as the digits written
Us(m, d, digits) == Tok("us", 0, m, d, digits)
MonthDate(m, d, y) == Tok("month", y, m, d, <<>>)
Year(y) == Tok("year", y, 0, 0, <<>>)
Word == Tok("word", 0, 0, 0, <<>>)

\* y = int(y); if y < 100: y += 1900 if y >= 50 else 2000
slash_year(digits) ==
    LET y == ToInt(digits)
    IN  IF y < 100 THEN (IF y >= 50 THEN y + 1900 ELSE y + 2000) ELSE y

\* the (year, month, day) one match of a full-date pattern stands for
token_ymd(tok) ==
    IF tok.k = "us" THEN <<slash_year(tok.s), tok.m, tok.d>>
    ELSE <<tok.y, tok.m, tok.d>>

\* one findall loop: the datetimes of the matches of one pattern, in text
\* order, the matches that are no calendar date dropped
RECURSIVE pattern_candidates(_, _)
pattern_candidates(text, kind) ==
    IF text = <<>> THEN <<>>
    ELSE LET tok == Head(text)
             ymd == token_ymd(tok)
         IN  IF tok.k = kind /\ valid_date(ymd[1], ymd[2], ymd[3])
             THEN <<Dt(ymd[1], ymd[2], ymd[3], 0, 0, 0)>> \o pattern_candidates(Tail(text), kind)
             ELSE pattern_candidates(Tail(text), kind)

\* cands after the three loops: ISO matches, then slash matches, then month names
all_candidates_with_years(text) ==
    pattern_candidates(text, "iso") \o pattern_candidates(text, "us")
        \o pattern_candidates(text, "month")
        \o pattern_candidates([i \in 1..Len(text) |->
               IF text[i].k = "year" THEN Tok("year", text[i].y, 1, 1, <<>>) ELSE text[i]], "year")

all_candidates(text) ==
    pattern_candidates(text, "iso") \o pattern_candidates(text, "us")
        \o pattern_candidates(text, "month")

\* the dedup loop: first occurrence of each calendar day
uniq_no_dedup(cands, seen, uniq) == cands

RECURSIVE uniq_by_day(_, _, _)
uniq_by_day(cands, seen, uniq) ==
    IF cands = <<>> THEN uniq
    ELSE IF date_key(Head(cands)) \notin seen
         THEN uniq_by_day(Tail(cands), seen \cup {date_key(Head(cands))}, Append(uniq, Head(cands)))
         ELSE uniq_by_day(Tail(cands), seen, uniq)

parse_date_candidates_from_text(text, limit) ==
    IF text = <<>> THEN <<>>
    ELSE LET uniq == uniq_by_day(all_candidates(text), {}, <<>>)
         IN  SubSeq(uniq, 1, Min(limit, Len(uniq)))

(***************************************************************************)
(* Date step, main.py:249-272                                              *)
(***************************************************************************)
\* truthiness of document.get("date")
date_supplied(doc) ==
    \/ doc.date.p = "other"
    \/ doc.date.p = "str" /\ doc.date.s # <<>>

\* limit=10 in the call of parse_date_candidates_from_text
CANDIDATE_LIMIT == 10

\* text = ((title or "") + " " + (content or "")).strip()
date_text(doc) == doc.title \o doc.content

\* max(cands)
first_candidate(cands) == cands[1]

max_candidate(cands) ==
    cands[CHOOSE i \in 1..Len(cands) : \A j \in 1..Len(cands) : ~DtLess(cands[i], cands[j])]

\* document.pop("date", None)
keep_unparsed_date(doc) == doc

pop_date(doc) == [doc EXCEPT !.date = AbsentStr]

\* if "extracted_dates" not in document: document["extracted_dates"] = []
ensure_extracted_dates(doc) ==
    IF doc.extracted_dates.p = "absent" THEN [doc EXCEPT !.extracted_dates = List(<<>>)] ELSE doc

\* ensure_document_has_date(document); parsed is what dateparser.parse returns
\* if normalize_date_value reaches it
ensure_document_has_date(doc, parsed) ==
    IF date_supplied(doc)
    THEN LET fixed == normalize_date_value(doc.date, parsed)
         IN  ensure_extracted_dates(
                 IF fixed.p = "str" THEN [doc EXCEPT !.date = fixed] ELSE pop_date(doc))
    ELSE LET cands == parse_date_candidates_from_text(date_text(doc), CANDIDATE_LIMIT)
         IN  IF cands # <<>>
             THEN [doc EXCEPT !.date = Str(strftime(max_candidate(cands))),
                              !.extracted_dates =
                                  List([i \in 1..Len(cands) |-> strftime(cands[i])])]
             ELSE [doc EXCEPT !.extracted_dates = List(<<>>)]

(***************************************************************************)
(* extract_temporal_expressions, main.py:301-314                           *)
(***************************************************************************)
MONTH_NAMES == <<"January", "February", "March", "April", "May", "June", "July",
                 "August", "September", "October", "November", "December">>

\* a number of one or two digits as written, without padding
Decimal(n) == IF n < 10 THEN <<DigitChars[n + 1]>> ELSE Pad2(n)

\* the characters of a token (a month name counts as one character)
token_string(tok) ==
    CASE tok.k = "iso" -> Pad4(tok.y) \o <<"-">> \o Pad2(tok.m) \o <<"-">> \o Pad2(tok.d)
      [] tok.k = "us" -> Decimal(tok.m) \o <<"/">> \o Decimal(tok.d) \o <<"/">> \o tok.s
      [] tok.k = "month" ->
             <<MONTH_NAMES[tok.m], SP>> \o Decimal(tok.d) \o <<",", SP>> \o Pad4(tok.y)
      [] tok.k = "year" -> Pad4(tok.y)
      [] OTHER -> <<"w">>

\* the matches of \b\d{4}\b inside one token
year_matches(tok) ==
    CASE tok.k \in {"iso", "month", "year"} -> <<Pad4(tok.y)>>
      [] tok.k = "us" /\ Len(tok.s) = 4 -> <<tok.s>>
      [] OTHER -> <<>>

\* re.findall(pattern, text) for the first pattern
RECURSIVE findall_years(_)
findall_years(text) ==
    IF text = <<>> THEN <<>> ELSE year_matches(Head(text)) \o findall_years(Tail(text))

\* re.findall(pattern, text) for the patterns that match a whole token
RECURSIVE findall_kind(_, _)
findall_kind(text, kind) ==
    IF text = <<>> THEN <<>>
    ELSE (IF Head(text).k = kind THEN <<token_string(Head(text))>> ELSE <<>>)
             \o findall_kind(Tail(text), kind)

\* expressions after the loop over temporal_patterns
temporal_matches(text) ==
    findall_years(text) \o findall_kind(text, "month") \o findall_kind(text, "us")
        \o findall_kind(text, "iso")

\* the [:10] of the return statement
TEMPORAL_LIMIT == 10

\* list(set(expressions))[:10]: a set has no order the code controls, so any
\* TEMPORAL_LIMIT of the distinct matches can be the ones returned
extract_temporal_expressions(text) ==
    LET distinct == Range(temporal_matches(text))
    IN  IF Cardinality(distinct) <= TEMPORAL_LIMIT THEN {distinct}
        ELSE { S \in SUBSET distinct : Cardinality(S) = TEMPORAL_LIMIT }

(***************************************************************************)
(* Inputs of the date step and of the text extractors                      *)
(***************************************************************************)
DateTokens ==
    { Iso(1987, 2, 26), Us(2, 26, <<"1", "9", "8", "7">>), Us(2, 26, <<"8", "7">>),
      Us(2, 26, <<"4", "9">>), Us(2, 26, <<"5", "0">>), Us(2, 26, <<"0", "0", "8", "7">>),
      MonthDate(3, 10, 2020), Iso(1987, 2, 30), Year(1999), Word }

\* n consecutive days written as ISO dates
Run(n) == [i \in 1..n |-> Iso(1988, 3, i)]

RunEnds == { <<>>, <<Year(1999)>>, <<Us(2, 26, <<"8", "7">>)>> }

RunTexts ==
    { pre \o Run(n) \o post : pre \in RunEnds, post \in RunEnds, n \in (MaxRun - 2)..MaxRun }

Texts == SeqsUpTo(DateTokens, MaxTextLen) \cup RunTexts

DateTitles == { <<>>, <<MonthDate(3, 10, 2020)>> }

Canon1 == strftime(Dt(2025, 12, 20, 6, 38, 53))

\* values of date that are missing, None or empty
NoDateInputs == { AbsentStr, NoneStr, Str(<<>>) }

\* a value that is no string (a number)
OtherValue == [p |-> "other", s |-> <<>>]

DateInputs ==
    { Str(Canon1),
      Str(Canon1 \o <<".", "9", "9", "0", "Z">>),
      Str(Canon1 \o <<"Z">>),
      Str(Canon1 \o <<"+", "0", "0", ":", "0", "0">>),
      Str(Canon1 \o <<".", "1", "-", "0", "5", ":", "3", "0">>),
      Str(<<SP>> \o Canon1 \o <<"Z", SP>>),
      Str(Canon1 \o <<"+", "0", "0", "0", "0">>),
      Str(Canon1 \o <<".">>),
      Str(SubSeq(Canon1, 1, 10)),
      Str(<<"x">>),
      OtherValue }

ExtractedDatesInputs == { AbsentList, List(<<>>), List(<<Canon1>>) }

\* what dateparser.parse can return
DateparserResults == { NoDt, Dt(2020, 3, 10, 0, 0, 0), Dt(2025, 12, 20, 6, 38, 53) }

DateDocs ==
    { Doc(t, c, dv, ed, AbsentGeo, AbsentSrc, AbsentList, AbsentPt) :
        t \in DateTitles, c \in Texts, dv \in NoDateInputs, ed \in ExtractedDatesInputs }
    \cup
    { Doc(<<>>, c, dv, ed, AbsentGeo, AbsentSrc, AbsentList, AbsentPt) :
        c \in { <<>>, <<Iso(1987, 2, 26)>> }, dv \in DateInputs, ed \in ExtractedDatesInputs }

(***************************************************************************)
(* The date step applied to a document that arrives, and the extractors    *)
(* applied to a text                                                       *)
(***************************************************************************)
EnsureDate ==
    /\ op = "none"
    /\ \E doc \in DateDocs, parsed \in DateparserResults :
        /\ input' = doc
        /\ document' = ensure_document_has_date(doc, parsed)
        /\ op' = "ensure_document_has_date"
        /\ args' = [parsed |-> parsed]
        /\ result' = <<>>
        /\ UNCHANGED <<NLP_AVAILABLE, GEOCODE_CACHE, log>>

ParseDateCandidates ==
    /\ op = "none"
    /\ \E text \in Texts :
        /\ op' = "parse_date_candidates_from_text"
        /\ args' = [text |-> text, limit |-> CANDIDATE_LIMIT]
        /\ result' = parse_date_candidates_from_text(text, CANDIDATE_LIMIT)
        /\ UNCHANGED <<NLP_AVAILABLE, GEOCODE_CACHE, log, document, input>>

ExtractTemporalExpressions ==
    /\ op = "none"
    /\ \E text \in Texts :
      \E returned \in extract_temporal_expressions(text) :
        /\ op' = "extract_temporal_expressions"
        /\ args' = [text |-> text]
        /\ result' = returned
        /\ UNCHANGED <<NLP_AVAILABLE, GEOCODE_CACHE, log, document, input>>

InitDate ==
    /\ InitCommon
    /\ NLP_AVAILABLE = TRUE
    /\ document = EmptyDoc
    /\ input = EmptyDoc

NextDate == EnsureDate \/ ParseDateCandidates \/ ExtractTemporalExpressions

SpecDate == InitDate /\ [][NextDate]_vars

(***************************************************************************)
(* Inputs of the location step                                             *)
(***************************************************************************)
GeoRefNames == { <<"A">>, <<SP, "a">>, <<SP>> }

GeoRefInputs ==
    {AbsentGeo} \cup { GeoStr(n) : n \in GeoRefNames }
                \cup { GeoList(l) : l \in SeqsUpTo(GeoRefNames, MaxNames) }

PlaceTokens == { Place(<<"A">>), Place(<<"a">>) }

LocTitles == { <<>>, <<Place(<<"B">>)>> }

LocContents == SeqsUpTo(PlaceTokens, MaxTextLen)

LocSources == { AbsentSrc, Src("manual") }

GeoPointInputs == { AbsentPt, Pt(9, 9) }

LocDocs ==
    { Doc(t, c, AbsentStr, AbsentList, g, ls, AbsentList, gp) :
        t \in LocTitles, c \in LocContents, g \in GeoRefInputs,
        ls \in LocSources, gp \in GeoPointInputs }

GeoLimits == {1, 2}

\* the keys geocode_locations may look up during one location step
step_keys(doc, geo_limit, nlp) ==
    LET d1 == set_georeferences(doc, nlp)
        main_loc == extract_most_frequent_location(location_text(doc), nlp)
    IN  KeysOf(Range(SubSeq(d1.georeferences.l, 1, Min(geo_limit, Len(d1.georeferences.l)))))
        \cup (IF main_loc.p = "str" THEN KeysOf({main_loc.s}) ELSE {})

(***************************************************************************)
(* The location step applied to a document that arrives                    *)
(***************************************************************************)
EnsureLocation ==
    /\ op = "none"
    /\ \E doc \in LocDocs, do_geocode \in BOOLEAN, geo_limit \in GeoLimits :
      \E answers \in [step_keys(doc, geo_limit, NLP_AVAILABLE) -> Outcomes] :
        LET r == ensure_document_has_location(doc, do_geocode, geo_limit,
                                              NLP_AVAILABLE, GEOCODE_CACHE, answers, answers)
        IN  /\ document' = r.doc
            /\ input' = doc
            /\ GEOCODE_CACHE' = r.cache
            /\ log' = log \o r.evs
            /\ op' = "ensure_document_has_location"
            /\ args' = [do_geocode |-> do_geocode, geo_limit |-> geo_limit]
            /\ result' = <<>>
            /\ UNCHANGED NLP_AVAILABLE

InitLoc ==
    /\ InitCommon
    /\ NLP_AVAILABLE \in BOOLEAN
    /\ document = EmptyDoc
    /\ input = EmptyDoc

NextLoc == EnsureLocation

SpecLoc == InitLoc /\ [][NextLoc]_vars

(***************************************************************************)
(* The geocode resolver called directly, any number of times               *)
(***************************************************************************)
InitGeo ==
    /\ InitCommon
    /\ NLP_AVAILABLE = TRUE
    /\ document = EmptyDoc
    /\ input = EmptyDoc

NextGeo == GeocodeCall

SpecGeo == InitGeo /\ [][NextGeo]_vars

(***************************************************************************)
(* Query clauses, main.py:536-638                                          *)
(***************************************************************************)
\* a boost as the code writes it, in tenths: Boost(1, 5) is 1.5
Boost(whole, tenths) == whole * 10 + tenths

\* a clause written without a "boost" key
NoBoost == -1

\* the weight the search engine gives a clause written without a boost: 1.0
DEFAULT_BOOST == 10

\* one query clause; should and msm are used by "bool", inner by "constant_score"
Clause(kind, field, query, boost, fuzziness, gte, lt, should, msm) ==
    [kind |-> kind, field |-> field, query |-> query, boost |-> boost,
     fuzziness |-> fuzziness, gte |-> gte, lt |-> lt, should |-> should, msm |-> msm]

\* parse_temporal_to_date_filter returning None
NoClause == Clause("none", "", <<>>, NoBoost, "", <<>>, <<>>, <<>>, 0)

Term(field, value, boost) == Clause("term", field, value, boost, "", <<>>, <<>>, <<>>, 0)

Match(field, query, boost) == Clause("match", field, query, boost, "", <<>>, <<>>, <<>>, 0)

MatchFuzzy(field, query, boost) ==
    Clause("match", field, query, boost, "AUTO", <<>>, <<>>, <<>>, 0)

MatchPhrase(field, query, boost) ==
    Clause("match_phrase", field, query, boost, "", <<>>, <<>>, <<>>, 0)

\* {"range": {field: {"gte": gte, "lt": lt}}}
RangeClause(field, gte, lt) == Clause("range", field, <<>>, NoBoost, "", gte, lt, <<>>, 0)

\* {"bool": {"should": should, "minimum_should_match": msm}}
BoolShould(should, msm) == Clause("bool", "", <<>>, NoBoost, "", <<>>, <<>>, should, msm)

\* {"constant_score": {"filter": filter, "boost": boost}}
ConstantScore(filter, boost) ==
    Clause("constant_score", "", <<>>, boost, "", <<>>, <<>>, <<filter>>, 0)

(***************************************************************************)
(* parse_temporal_to_date_filter, main.py:536-573                          *)
(***************************************************************************)
\* the pieces of s between occurrences of sep
RECURSIVE SplitOn(_, _)
SplitOn(s, sep) ==
    IF \A i \in 1..Len(s) : s[i] # sep THEN <<s>>
    ELSE LET i == CHOOSE j \in 1..Len(s) : s[j] = sep /\ \A k \in 1..(j - 1) : s[k] # sep
         IN  <<SubSeq(s, 1, i - 1)>> \o SplitOn(SubSeq(s, i + 1, Len(s)), sep)

\* %Y of strptime: exactly four digits
field_year(p) == Len(p) = 4 /\ AllDigits(p, 1, 4)

\* %m and %d of strptime: one or two digits, not zero
field_number(p, max) ==
    /\ Len(p) \in {1, 2} /\ AllDigits(p, 1, Len(p))
    /\ ToInt(p) >= 1 /\ ToInt(p) <= max

\* datetime.strptime(t, fmt) for the two formats; NoDt when it raises
strptime(t, sep, yi, mi, di) ==
    LET parts == SplitOn(t, sep)
    IN  IF /\ Len(parts) = 3
           /\ field_year(parts[yi]) /\ field_number(parts[mi], 12)
           /\ field_number(parts[di], 31)
           /\ valid_date(ToInt(parts[yi]), ToInt(parts[mi]), ToInt(parts[di]))
        THEN Dt(ToInt(parts[yi]), ToInt(parts[mi]), ToInt(parts[di]), 0, 0, 0)
        ELSE NoDt

\* d + timedelta(days=1); NoDt when it raises OverflowError
next_day(d) ==
    IF d.d < DaysInMonth(d.y, d.m) THEN [d EXCEPT !.d = d.d + 1]
    ELSE IF d.m < 12 THEN [d EXCEPT !.m = d.m + 1, !.d = 1]
    ELSE IF d.y < 9999 THEN [d EXCEPT !.y = d.y + 1, !.m = 1, !.d = 1]
    ELSE NoDt

\* str(n) for n >= 0, as an f-string writes it
RECURSIVE int_str(_)
int_str(n) ==
    IF n < 10 THEN <<DigitChars[n + 1]>>
    ELSE int_str(n \div 10) \o <<DigitChars[(n % 10) + 1]>>

MIDNIGHT == <<"T", "0", "0", ":", "0", "0", ":", "0", "0">>

\* d.strftime("%Y-%m-%dT00:00:00")
strftime_midnight(d) == SubSeq(strftime(d), 1, 10) \o MIDNIGHT

\* the range of one day, or NoClause when strptime or the timedelta raises
day_range(d) ==
    IF d = NoDt \/ next_day(d) = NoDt THEN NoClause
    ELSE RangeClause("date", strftime_midnight(d), strftime_midnight(next_day(d)))

\* the year branch, main.py:559-571
year_filter(t) ==
    BoolShould(<<RangeClause("date",
                     int_str(ToInt(t)) \o <<"-", "0", "1", "-", "0", "1">> \o MIDNIGHT,
                     int_str(ToInt(t) + 1) \o <<"-", "0", "1", "-", "0", "1">> \o MIDNIGHT),
                 Match("temporal_expressions", t, Boost(2, 0))>>, 1)

parse_temporal_to_date_filter(raw) ==
    LET t == Strip(raw)
        iso == day_range(strptime(t, "-", 1, 2, 3))
        us == day_range(strptime(t, "/", 3, 1, 2))
    IN  IF raw = <<>> THEN NoClause
        ELSE IF iso # NoClause THEN iso
        ELSE IF us # NoClause THEN us
        ELSE IF Len(t) = 4 /\ AllDigits(t, 1, 4) THEN year_filter(t)
        ELSE Match("temporal_expressions", t, Boost(1, 5))

(***************************************************************************)
(* remove_duplicates, main.py:277-286                                      *)
(***************************************************************************)
\* str(x) of a title: the string itself, and the text None for a null
str_of(value) ==
    CASE value.p = "str" -> value.s
      [] value.p = "none" -> <<"N", "o", "n", "e">>
      [] OTHER -> <<>>

\* str(item.get("title", "")).lower().strip()
identifier(item) == Strip(Lower(str_of(item.title)))

\* the loop keeping the items without an identifier
RECURSIVE keep_untitled(_, _, _)
keep_untitled(results, seen, unique_results) ==
    IF results = <<>> THEN unique_results
    ELSE LET item == Head(results)
             id == identifier(item)
         IN  IF id \notin seen
             THEN keep_untitled(Tail(results), IF id = <<>> THEN seen ELSE seen \cup {id},
                                Append(unique_results, item))
             ELSE keep_untitled(Tail(results), seen, unique_results)

\* the loop without the seen set: every titled item is kept
RECURSIVE keep_all_titled(_, _, _)
keep_all_titled(results, seen, unique_results) ==
    IF results = <<>> THEN unique_results
    ELSE keep_all_titled(Tail(results), seen,
             IF identifier(Head(results)) # <<>>
             THEN Append(unique_results, Head(results)) ELSE unique_results)

RECURSIVE remove_duplicates_loop(_, _, _)
remove_duplicates_loop(results, seen, unique_results) ==
    IF results = <<>> THEN unique_results
    ELSE LET item == Head(results)
             id == identifier(item)
         IN  IF id # <<>> /\ id \notin seen
             THEN remove_duplicates_loop(Tail(results), seen \cup {id},
                                         Append(unique_results, item))
             ELSE remove_duplicates_loop(Tail(results), seen, unique_results)

remove_duplicates(results) == remove_duplicates_loop(results, {}, <<>>)

(***************************************************************************)
(* smart_search, main.py:576-660                                           *)
(***************************************************************************)
\* the bool of the four text clauses, main.py:591-602
text_clause(query_text) ==
    BoolShould(<<Term("title.keyword", query_text, Boost(50, 0)),
                 MatchPhrase("title", query_text, Boost(20, 0)),
                 MatchFuzzy("title", query_text, Boost(6, 0)),
                 Match("content", query_text, Boost(1, 0))>>, 1)

\* main.py:605-613
temporal_clauses(temporal) ==
    LET tf == parse_temporal_to_date_filter(temporal)
    IN  IF temporal = <<>> \/ tf = NoClause THEN <<>>
        ELSE IF tf.kind = "range" THEN <<ConstantScore(tf, Boost(3, 0))>>
        ELSE <<tf>>

\* main.py:616-621
geo_clauses(geo) ==
    IF geo = <<>> THEN <<>>
    ELSE <<Term("georeferences.keyword", geo, Boost(60, 0)),
           Match("georeferences", geo, Boost(15, 0))>>

SearchQuery(size, must, filter, should, msm) ==
    [size |-> size, must |-> must, filter |-> filter, should |-> should, msm |-> msm]

OVERFETCH == 3

\* the query with the temporal clauses among the filters
build_search_query_filtering(query_text, temporal, geo, size) ==
    SearchQuery(size * OVERFETCH,
                IF query_text # <<>> THEN <<text_clause(query_text)>> ELSE <<>>,
                temporal_clauses(temporal), geo_clauses(geo), 0)

\* search_query, main.py:585-638, from the stripped parameters
build_search_query(query_text, temporal, geo, size) ==
    SearchQuery(size * OVERFETCH,
                IF query_text # <<>> THEN <<text_clause(query_text)>> ELSE <<>>,
                <<>>,
                temporal_clauses(temporal) \o geo_clauses(geo),
                0)

\* what client.search does: it returns hits or raises
EngineOk(hits) == [ok |-> TRUE, hits |-> hits, error |-> ""]
EngineError(e) == [ok |-> FALSE, hits |-> <<>>, error |-> e]

Hit(id, score, title, georeferences) ==
    [id |-> id, score |-> score, title |-> title, georeferences |-> georeferences]

\* main.py:643-649: the source of the hit with its id and score, and
\* georeferences set to [] when missing or empty
hit_result(hit) ==
    IF hit.georeferences.p = "absent" \/ hit.georeferences = GeoList(<<>>)
    THEN [hit EXCEPT !.georeferences = GeoList(<<>>)]
    ELSE hit

Response(status, success, has_results, results, total, error) ==
    [status |-> status, success |-> success, has_results |-> has_results,
     results |-> results, total |-> total, error |-> error]

\* the except branch answering with an empty result list
error_response_empty_list(e) == Response(200, TRUE, TRUE, <<>>, 0, "")

\* main.py:659-660: jsonify({"success": False, "error": str(e)}), 500
error_response(e) == Response(500, FALSE, FALSE, <<>>, 0, e)

\* the request handler, given what the engine does with the query; the
\* response and the query that was sent
smart_search(data, engine) ==
    LET query_text == Strip(data.query)
        temporal == Strip(data.temporal_expression)
        geo == Strip(data.georeference)
        size == data.size
        search_query == build_search_query(query_text, temporal, geo, size)
        results == remove_duplicates([i \in 1..Len(engine.hits) |-> hit_result(engine.hits[i])])
    IN  [sent |-> search_query,
         response |-> IF engine.ok
                      THEN Response(200, TRUE, TRUE,
                                    SubSeq(results, 1, Min(size, Len(results))),
                                    Len(results), "")
                      ELSE error_response(engine.error)]

(***************************************************************************)
(* autocomplete, main.py:491-532                                           *)
(***************************************************************************)
\* the response of autocomplete has no "total"
NoTotal == -1

MIN_QUERY_LENGTH == 3

MatchPhrasePrefix(field, query, boost) ==
    Clause("match_phrase_prefix", field, query, boost, "", <<>>, <<>>, <<>>, 0)

\* main.py:500-512
autocomplete_query(query, size) ==
    SearchQuery(size * OVERFETCH, <<>>, <<>>,
                <<MatchFuzzy("title", query, Boost(2, 0)),
                  MatchPhrasePrefix("title", query, Boost(3, 0))>>, 1)

\* main.py:517-526: source.get("title", ""), source.get("georeferences", [])
suggestion(hit) ==
    [hit EXCEPT !.title = IF hit.title.p = "absent" THEN Str(<<>>) ELSE hit.title,
                !.georeferences = IF hit.georeferences.p = "absent" THEN GeoList(<<>>)
                                  ELSE hit.georeferences]

\* the handler, given what the engine does with the query when it is called;
\* called tells whether the engine is called at all
autocomplete(query, size, engine) ==
    LET results == remove_duplicates([i \in 1..Len(engine.hits) |-> suggestion(engine.hits[i])])
    IN  IF Len(query) < MIN_QUERY_LENGTH
        THEN [called |-> FALSE, sent |-> autocomplete_query(query, size),
              response |-> Response(200, TRUE, TRUE, <<>>, NoTotal, "")]
        ELSE [called |-> TRUE, sent |-> autocomplete_query(query, size),
              response |-> IF engine.ok
                           THEN Response(200, TRUE, TRUE,
                                         SubSeq(results, 1, Min(size, Len(results))),
                                         NoTotal, "")
                           ELSE error_response(engine.error)]

(***************************************************************************)
(* SmartQueryEngine.smart_search, query_engine.py:61-180                   *)
(***************************************************************************)
\* parsed_date.isoformat() of a datetime without microseconds or zone
isoformat(dt) == strftime(dt)

\* what the method does: it returns a list or lets an exception escape
Returned(results) == [raised |-> FALSE, error |-> "", results |-> results]
Raised(e) == [raised |-> TRUE, error |-> e, results |-> <<>>]

\* the failure of client.search swallowed into an empty list
search_failure_as_empty(e) == Returned(<<>>)

\* query_engine.py:171: client.search is not inside any try block
search_failure(e) == Raised(e)

\* parsed is what dateparser.parse returns for the temporal expression and
\* geocoded what the geocoding call in the method does
engine_smart_search(query_text, temporal_expression, georeference, size, parsed, geocoded, engine) ==
    LET text == IF query_text # <<>>
                THEN <<MatchFuzzy("title", query_text, Boost(3, 0)),
                       Match("content", query_text, Boost(1, 0))>>
                ELSE <<>>
        temporal == IF temporal_expression # <<>> /\ parsed # NoDt
                    THEN <<Clause("range", "date", <<>>, Boost(1, 5), "",
                                  isoformat(parsed), <<>>, <<>>, 0),
                           Match("temporal_expressions", temporal_expression, Boost(1, 2))>>
                    ELSE <<>>
        geo == IF georeference # <<>>
               THEN <<Match("georeferences", georeference, Boost(1, 5))>>
                    \o (IF geocoded = "point"
                        THEN <<Clause("geo_distance", "geopoint",
                                      place_point(cache_key(georeference)), NoBoost, "",
                                      <<>>, <<>>, <<>>, 0)>>
                        ELSE <<>>)
               ELSE <<>>
    IN  [sent |-> SearchQuery(size, <<>>, <<>>, text \o temporal \o geo, 1),
         response |-> IF engine.ok THEN Returned(engine.hits)
                      ELSE search_failure(engine.error)]

(***************************************************************************)
(* Inputs of the searches                                                  *)
(***************************************************************************)
MaxHits == 3       \* most hits the engine returns in the model

QueryTexts == { <<>>, <<SP>>, <<"o", SP>> }

GeoHints == { <<>>, <<"A", SP>> }

Sizes == {1, 2}

SLASH == <<"/">>

TemporalHints ==
    { <<>>, <<SP>>,
      token_string(Iso(1987, 2, 26)),
      <<SP>> \o token_string(Iso(1988, 2, 28)),
      token_string(Iso(1987, 2, 30)),
      Pad2(2) \o SLASH \o Pad2(26) \o SLASH \o Pad4(1987),
      token_string(Us(12, 31, Pad4(1999))),
      token_string(Us(2, 26, Pad2(87))),
      Pad4(1987), Pad4(987), Pad2(87), <<"o">> }

\* the documents of the index that a search can return
EngineSources ==
    { [title |-> Str(<<"A">>), georeferences |-> GeoList(<< <<"A">> >>)],
      [title |-> Str(<<SP, "a">>), georeferences |-> AbsentGeo],
      [title |-> Str(<<"B">>), georeferences |-> GeoList(<<>>)],
      [title |-> Str(<<SP>>), georeferences |-> AbsentGeo],
      [title |-> AbsentStr, georeferences |-> GeoList(<< <<"A">> >>)],
      [title |-> NoneStr, georeferences |-> AbsentGeo] }

\* a ranked hit list: ids by rank, scores falling
HitList(sources) ==
    [i \in 1..Len(sources) |->
        Hit(i, MaxHits + 1 - i, sources[i].title, sources[i].georeferences)]

EngineErrors == { "ConnectionError", "RequestError" }

HitLists == { HitList(ss) : ss \in SeqsUpTo(EngineSources, MaxHits) }

\* the engine returns at most the number of hits asked for
EngineOutcomes(size) ==
    { EngineOk(h) : h \in { l \in HitLists : Len(l) <= size } }
    \cup { EngineError(e) : e \in EngineErrors }

SearchEv(body, out) == [e |-> "search", body |-> body, out |-> out]

(***************************************************************************)
(* A search request arrives                                                *)
(***************************************************************************)
SmartSearch ==
    /\ op = "none"
    /\ \E q \in QueryTexts, t \in TemporalHints, g \in GeoHints, size \in Sizes :
         \E engine \in EngineOutcomes(size * OVERFETCH) :
           LET data == [query |-> q, temporal_expression |-> t,
                        georeference |-> g, size |-> size]
               r == smart_search(data, engine)
           IN  /\ op' = "smart_search"
               /\ args' = data
               /\ result' = r.response
               /\ log' = Append(log, SearchEv(r.sent, engine))
               /\ UNCHANGED <<NLP_AVAILABLE, GEOCODE_CACHE, document, input>>

\* a caller uses the query engine class
EngineSmartSearch ==
    /\ op = "none"
    /\ \E q \in {<<>>, <<"o">>}, t \in {<<>>, Pad4(1987)}, g \in {<<>>, <<"A">>},
          size \in Sizes, parsed \in {NoDt, Dt(1987, 1, 1, 0, 0, 0)}, geocoded \in Outcomes :
         \E engine \in EngineOutcomes(1) :
           LET r == engine_smart_search(q, t, g, size, parsed, geocoded, engine)
           IN  /\ op' = "SmartQueryEngine.smart_search"
               /\ args' = [query |-> q, temporal_expression |-> t,
                           georeference |-> g, size |-> size]
               /\ result' = r.response
               /\ log' = Append(log, SearchEv(r.sent, engine))
               /\ UNCHANGED <<NLP_AVAILABLE, GEOCODE_CACHE, document, input>>

\* a prefix is typed into the search box
Prefixes == { <<>>, <<"o", "s">>, <<"o", "s", "l">>, <<"o", "s", "l", "o">> }

Autocomplete ==
    /\ op = "none"
    /\ \E q \in Prefixes, size \in Sizes :
         \E engine \in EngineOutcomes(size * OVERFETCH) :
           LET r == autocomplete(q, size, engine)
           IN  /\ op' = "autocomplete"
               /\ args' = [query |-> q, size |-> size]
               /\ result' = r.response
               /\ log' = IF r.called THEN Append(log, SearchEv(r.sent, engine)) ELSE log
               /\ UNCHANGED <<NLP_AVAILABLE, GEOCODE_CACHE, document, input>>

InitSearch ==
    /\ InitCommon
    /\ NLP_AVAILABLE = TRUE
    /\ document = EmptyDoc
    /\ input = EmptyDoc

NextSearch == SmartSearch \/ EngineSmartSearch \/ Autocomplete

SpecSearch == InitSearch /\ [][NextSearch]_vars

(***************************************************************************)
(* The geo extractor applied to a text                                     *)
(***************************************************************************)
MaxSpans == 3      \* most tokens in a text handed to the geo extractor

\* entity spans as the NER service reports them: case variants, runs of
\* blanks inside and around the name, a blank span; and a plain word
SpanTokens ==
    { Place(<<"A">>), Place(<<"a", SP>>), Place(<<"A", SP, SP, "b">>),
      Place(<<"a", TAB, "B">>), Place(<<SP>>), Word }

SpanTexts == SeqsUpTo(SpanTokens, MaxSpans)

ExtractAllLocations ==
    /\ op = "none"
    /\ \E text \in SpanTexts :
        /\ op' = "extract_all_locations"
        /\ args' = [text |-> text]
        /\ result' = extract_all_locations(text, NLP_AVAILABLE)
        /\ UNCHANGED <<NLP_AVAILABLE, GEOCODE_CACHE, log, document, input>>

ExtractMostFrequentLocation ==
    /\ op = "none"
    /\ \E text \in SpanTexts :
        /\ op' = "extract_most_frequent_location"
        /\ args' = [text |-> text]
        /\ result' = extract_most_frequent_location(text, NLP_AVAILABLE)
        /\ UNCHANGED <<NLP_AVAILABLE, GEOCODE_CACHE, log, document, input>>

InitNer ==
    /\ InitCommon
    /\ NLP_AVAILABLE \in BOOLEAN
    /\ document = EmptyDoc
    /\ input = EmptyDoc

NextNer == ExtractAllLocations \/ ExtractMostFrequentLocation

SpecNer == InitNer /\ [][NextNer]_vars

(***************************************************************************)
(* index_document and bulk_index, main.py:373-448                          *)
(***************************************************************************)
MaxBatch == 2      \* most documents in one bulk request

\* the date-pattern scan is run by the date step unless the document has a
\* date or the text is empty, main.py:250, 261-262, 199-200
date_step_events(doc) ==
    IF date_supplied(doc) \/ date_text(doc) = <<>> THEN <<>>
    ELSE <<Ev("date_scan", <<>>, "-")>>

\* documents that arrive: with a date and georeferences and a place in the
\* text; with nothing but text; with an unparseable date and no text; with a
\* canonical date, georeferences and a text without places; and {}
IndexDocs ==
    { Doc(<<>>, <<Place(<<"a">>)>>, Str(Canon1 \o <<".", "9", "9", "0", "Z">>), AbsentList,
          GeoList(<< <<"B">> >>), AbsentSrc, AbsentList, AbsentPt),
      Doc(<<Place(<<"B">>)>>, <<Iso(1987, 2, 26), Place(<<"A">>)>>, AbsentStr, AbsentList,
          AbsentGeo, AbsentSrc, AbsentList, AbsentPt),
      Doc(<<>>, <<>>, Str(<<"x">>), AbsentList, AbsentGeo, AbsentSrc, AbsentList, AbsentPt),
      Doc(<<>>, <<Word>>, Str(Canon1), AbsentList,
          GeoList(<< <<"A">> >>), AbsentSrc, AbsentList, AbsentPt),
      EmptyDoc }

Routes == {"index_document", "bulk_index"}

\* an event of the request, for the document at position k of the batch
IdxEv(k, ev) == [k |-> k, e |-> ev.e, key |-> ev.key, out |-> ev.out]

Tagged(k, evs) == [j \in 1..Len(evs) |-> IdxEv(k, evs[j])]

Progress(i, step) == [i |-> i, step |-> step]

\* the loop of bulk_index going on to the location step of the next document
skip_date_of_next(route, i, n) ==
    IF route = "bulk_index" /\ i < n THEN Progress(i + 1, "location")
    ELSE Progress(i, "submit")

\* what follows the location step of document i of n: the next document of
\* the loop of bulk_index (main.py:419-421), or the hand-over to the index
after_location(route, i, n) ==
    IF route = "bulk_index" /\ i < n THEN Progress(i + 1, "date")
    ELSE Progress(i, "submit")

\* request.json arrives: one document, or {"documents": [...]}
Receive ==
    /\ op = "none"
    /\ \E route \in Routes :
         \E batch \in (IF route = "index_document"
                       THEN { <<d>> : d \in IndexDocs }
                       ELSE SeqsUpTo(IndexDocs, MaxBatch)) :
           /\ op' = route
           /\ input' = batch
           /\ document' = batch
           /\ args' = IF batch = <<>> THEN Progress(0, "submit") ELSE Progress(1, "date")
           /\ UNCHANGED <<NLP_AVAILABLE, GEOCODE_CACHE, log, result>>

\* main.py:378, 420
DateStep ==
    /\ op \in Routes
    /\ args.step = "date"
    /\ \E parsed \in DateparserResults :
         /\ document' = [document EXCEPT ![args.i] = ensure_document_has_date(@, parsed)]
         /\ log' = log \o <<IdxEv(args.i, Ev("date_step", <<>>, "-"))>>
                       \o Tagged(args.i, date_step_events(document[args.i]))
    /\ args' = Progress(args.i, "location")
    /\ UNCHANGED <<NLP_AVAILABLE, GEOCODE_CACHE, input, op, result>>

\* main.py:379, 421: do_geocode=True, geo_limit=1
LocationStep ==
    /\ op \in Routes
    /\ args.step = "location"
    /\ \E answers \in [step_keys(document[args.i], 1, NLP_AVAILABLE) -> Outcomes] :
         LET r == ensure_document_has_location(document[args.i], TRUE, 1, NLP_AVAILABLE,
                                               GEOCODE_CACHE, answers, answers)
         IN  /\ document' = [document EXCEPT ![args.i] = r.doc]
             /\ GEOCODE_CACHE' = r.cache
             /\ log' = log \o <<IdxEv(args.i, Ev("location_step", <<>>, "-"))>>
                           \o Tagged(args.i, r.evs)
    /\ args' = after_location(op, args.i, Len(document))
    /\ UNCHANGED <<NLP_AVAILABLE, input, op, result>>

\* main.py:381-385, 423-430: client.index(body=document), or helpers.bulk with
\* one action per document of the list; the index accepts or fails
Submit ==
    /\ op \in Routes
    /\ args.step = "submit"
    /\ \E status \in {"ok", "error"} :
         log' = log \o [k \in 1..Len(document) |-> IdxEv(k, Ev("submit", <<>>, status))]
    /\ result' = document
    /\ args' = Progress(args.i, "done")
    /\ UNCHANGED <<NLP_AVAILABLE, GEOCODE_CACHE, document, input, op>>

InitIndex ==
    /\ InitCommon
    /\ NLP_AVAILABLE \in BOOLEAN
    /\ document = <<>>
    /\ input = <<>>

NextIndex == Receive \/ DateStep \/ LocationStep \/ Submit

SpecIndex == InitIndex /\ [][NextIndex]_vars

(***************************************************************************)
(* geocode_locations run by concurrent requests, main.py:94-122            *)
(***************************************************************************)
\* The server handles each request in a thread of its own and the code takes
\* no lock; one step of a thread is one access to GEOCODE_CACHE or the call
\* of the geocoding service with the sleep that follows it.
Threads == {1, 2}

MaxRaceNames == 2  \* longest list of names of a concurrent request

RaceNameLists == SeqsUpTo({ <<"A">>, <<SP, "a">>, <<"B">> }, MaxRaceNames) \ { <<>> }

\* a thread inside geocode_locations: its list, the position of the loop,
\* where it is in the body, and what its pending call returned
Thread(names, i, pc, loc) == [names |-> names, i |-> i, pc |-> pc, loc |-> loc]

ThreadEv(t, e, key, out) == [t |-> t, e |-> e, key |-> key, out |-> out]

\* the next iteration of "for name in location_names[:limit]", or the return
NextName(th) ==
    IF th.i < Len(th.names) THEN Thread(th.names, th.i + 1, "in", "-")
    ELSE Thread(th.names, th.i, "return", "-")

StartRequests ==
    /\ op = "none"
    /\ \E n1 \in RaceNameLists, n2 \in RaceNameLists :
         args' = (1 :> Thread(n1, 1, "in", "-")) @@ (2 :> Thread(n2, 1, "in", "-"))
    /\ op' = "concurrent geocode_locations"
    /\ result' = (1 :> <<>>) @@ (2 :> <<>>)
    /\ UNCHANGED <<NLP_AVAILABLE, GEOCODE_CACHE, log, document, input>>

Racing == op = "concurrent geocode_locations"

\* line 104: if key in GEOCODE_CACHE
TestInCache(t) ==
    /\ Racing
    /\ args[t].pc = "in"
    /\ args' = [args EXCEPT ![t].pc =
                  IF cache_key(args[t].names[args[t].i]) \in DOMAIN GEOCODE_CACHE
                  THEN "read" ELSE "call"]
    /\ UNCHANGED <<NLP_AVAILABLE, GEOCODE_CACHE, log, document, input, op, result>>

\* lines 105-108: cached = GEOCODE_CACHE[key]; append if truthy; continue
ReadCached(t) ==
    /\ Racing
    /\ args[t].pc = "read"
    /\ LET key == cache_key(args[t].names[args[t].i])
           cached == GEOCODE_CACHE[key]
       IN  /\ result' = [result EXCEPT ![t] =
                            IF cached.p = "point" THEN Append(@, cached) ELSE @]
           /\ log' = Append(log, ThreadEv(t, "hit", key, cached.p))
    /\ args' = [args EXCEPT ![t] = NextName(@)]
    /\ UNCHANGED <<NLP_AVAILABLE, GEOCODE_CACHE, document, input, op>>

\* lines 111-112: the call returns a location or None, and the sleep, or raises
CallGeocoder(t) ==
    /\ Racing
    /\ args[t].pc = "call"
    /\ \E out \in Outcomes :
         /\ args' = [args EXCEPT ![t].pc = "store", ![t].loc = out]
         /\ log' = Append(log, ThreadEv(t, "call", cache_key(args[t].names[args[t].i]), out))
    /\ UNCHANGED <<NLP_AVAILABLE, GEOCODE_CACHE, document, input, op, result>>

\* lines 113-120: GEOCODE_CACHE[key] = point and the append, or = None
StoreResult(t) ==
    /\ Racing
    /\ args[t].pc = "store"
    /\ LET key == cache_key(args[t].names[args[t].i])
       IN  IF args[t].loc = "point"
           THEN /\ GEOCODE_CACHE' = (key :> place_point(key)) @@ GEOCODE_CACHE
                /\ result' = [result EXCEPT ![t] = Append(@, place_point(key))]
           ELSE /\ GEOCODE_CACHE' = (key :> NoneV) @@ GEOCODE_CACHE
                /\ UNCHANGED result
    /\ args' = [args EXCEPT ![t] = NextName(@)]
    /\ UNCHANGED <<NLP_AVAILABLE, log, document, input, op>>

InitRace ==
    /\ InitCommon
    /\ NLP_AVAILABLE = TRUE
    /\ document = EmptyDoc
    /\ input = EmptyDoc

NextRace ==
    \/ StartRequests
    \/ \E t \in Threads : TestInCache(t) \/ ReadCached(t) \/ CallGeocoder(t) \/ StoreResult(t)

SpecRace == InitRace /\ [][NextRace]_vars

(***************************************************************************)
(* The two enrichment steps on one document, main.py:353-354, 378-379      *)
(***************************************************************************)
\* parse_sgm_file and index_document build a document and pass it through the
\* date step and then the location step, the first without geocoding
EnrichContents ==
    { <<>>, <<Place(<<"A">>)>>, <<Iso(1987, 2, 26), Place(<<"a">>)>>,
      <<Place(<<"A">>), Place(<<"B">>), Place(<<"B">>)>> }

EnrichDates == { AbsentStr, Str(Canon1 \o <<"Z">>), Str(<<"x">>) }

EnrichGeoRefs == { AbsentGeo, GeoList(<< <<"A">> >>), GeoList(<< <<SP>> >>), GeoStr(<<"B">>) }

EnrichDocs ==
    { Doc(t, c, dv, ed, g, ls, gps, gp) :
        t \in LocTitles, c \in EnrichContents, dv \in EnrichDates,
        ed \in { AbsentList, List(<<Canon1>>) }, g \in EnrichGeoRefs, ls \in LocSources,
        gps \in { AbsentList, List(<<Pt(9, 9)>>) }, gp \in GeoPointInputs }

BuildDocument ==
    /\ op = "none"
    /\ \E doc \in EnrichDocs, do_geocode \in BOOLEAN :
         /\ document' = doc
         /\ input' = doc
         /\ args' = [do_geocode |-> do_geocode, geo_limit |-> 1]
    /\ op' = "document built"
    /\ UNCHANGED <<NLP_AVAILABLE, GEOCODE_CACHE, log, result>>

EnrichDate ==
    /\ op = "document built"
    /\ \E parsed \in DateparserResults :
         document' = ensure_document_has_date(document, parsed)
    /\ op' = "ensure_document_has_date"
    /\ UNCHANGED <<NLP_AVAILABLE, GEOCODE_CACHE, log, input, args, result>>

EnrichLocation ==
    /\ op = "ensure_document_has_date"
    /\ \E answers \in [step_keys(document, args.geo_limit, NLP_AVAILABLE) -> Outcomes] :
         LET r == ensure_document_has_location(document, args.do_geocode, args.geo_limit,
                                               NLP_AVAILABLE, GEOCODE_CACHE, answers, answers)
         IN  /\ document' = r.doc
             /\ GEOCODE_CACHE' = r.cache
             /\ log' = log \o r.evs
    /\ op' = "ensure_document_has_location"
    /\ UNCHANGED <<NLP_AVAILABLE, input, args, result>>

InitEnrich ==
    /\ InitCommon
    /\ NLP_AVAILABLE \in BOOLEAN
    /\ document = EmptyDoc
    /\ input = EmptyDoc

NextEnrich == BuildDocument \/ EnrichDate \/ EnrichLocation

SpecEnrich == InitEnrich /\ [][NextEnrich]_vars

(***************************************************************************)
(* Reading the history of geocoding events                                 *)
(***************************************************************************)
CallsFor(key) == { i \in 1..Len(log) : log[i].e = "call" /\ log[i].key = key }

LoggedKeys == { log[i].key : i \in 1..Len(log) }

\* C1: the geocoding service is called at most once per cache key: every key
\* that was called is in the cache, no key has two calls in the history (so a
\* failed name is not attempted again), and after resolving a list whose first
\* two names share a key, with a limit of at least 2, that key has exactly one call.
C1_OneCallPerKey ==
    /\ \A key \in LoggedKeys :
          /\ Cardinality(CallsFor(key)) <= 1
          /\ key \in DOMAIN GEOCODE_CACHE
    /\ (/\ op = "geocode_locations"
        /\ Len(args.names) >= 2
        /\ args.limit >= 2
        /\ cache_key(args.names[1]) # <<>>
        /\ cache_key(args.names[1]) = cache_key(args.names[2]))
       => Cardinality(CallsFor(cache_key(args.names[1]))) = 1

\* a name that failed earlier was looked up again and answered from the cache
C1_Witness ==
    \E i, j \in 1..Len(log) :
        /\ i < j
        /\ log[i].e = "call" /\ log[i].out \in {"error", "notfound"}
        /\ log[j].e = "hit" /\ log[j].key = log[i].key /\ log[j].out = "none"

\* C10: between any two consecutive external calls the delay elapses, whatever
\* the outcome of the earlier call.
C10_DelayBetweenCalls ==
    \A i, j \in 1..Len(log) :
        (i < j /\ log[i].e = "call" /\ log[j].e = "call")
        => \E m \in (i + 1)..(j - 1) : log[m].e = "sleep"

\* the keys of location_names[:limit] of the last call
AttemptedKeys(a) == KeysOf(Range(SubSeq(a.names, 1, Min(a.limit, Len(a.names)))))

\* C11: a call of geocode_locations attempts only the first `limit` names: the
\* cache afterwards differs from the cache before only at keys of those names,
\* and every external call, sleep and cache look-up of the call is for one of them.
C11_OnlyFirstLimitAttempted ==
    [][op' = "geocode_locations" =>
        /\ \A k \in DOMAIN GEOCODE_CACHE' :
              (k \notin DOMAIN GEOCODE_CACHE \/ GEOCODE_CACHE'[k] # GEOCODE_CACHE[k])
              => k \in AttemptedKeys(args')
        /\ DOMAIN GEOCODE_CACHE \subseteq DOMAIN GEOCODE_CACHE'
        /\ \A i \in (Len(log) + 1)..Len(log') : log'[i].key \in AttemptedKeys(args')]_vars

\* a call with more names than the limit: the first was attempted and cached,
\* the excess name has another key and is not in the cache
C11_Witness ==
    /\ op = "geocode_locations"
    /\ Len(args.names) > args.limit
    /\ cache_key(args.names[1]) \in DOMAIN GEOCODE_CACHE
    /\ cache_key(args.names[2]) # <<>>
    /\ cache_key(args.names[2]) \notin DOMAIN GEOCODE_CACHE

\* the points of names[1..n] that the cache holds a point for, in list order
RECURSIVE ResolvedPoints(_, _, _)
ResolvedPoints(names, n, cache) ==
    IF n = 0 THEN <<>>
    ELSE LET key == cache_key(names[n])
             before == ResolvedPoints(names, n - 1, cache)
         IN  IF key # <<>> /\ key \in DOMAIN cache /\ cache[key].p = "point"
             THEN Append(before, cache[key])
             ELSE before

\* C12: geocode_locations returns the points of the names that resolve (from
\* the cache or a fresh call) in the order of the input list and nothing for the
\* names that fail, so the result has at most `limit` entries; the location
\* step stores that list as geo_points.
C12_PointsInInputOrder ==
    /\ op = "geocode_locations" =>
          /\ result = ResolvedPoints(args.names, Min(args.limit, Len(args.names)), GEOCODE_CACHE)
          /\ Len(result) <= args.limit
    /\ (op = "ensure_document_has_location" /\ args.do_geocode
            /\ document.georeferences.l # <<>>) =>
          /\ document.geo_points.p = "list"
          /\ document.geo_points.l =
                ResolvedPoints(document.georeferences.l,
                               Min(args.geo_limit, Len(document.georeferences.l)), GEOCODE_CACHE)
          /\ Len(document.geo_points.l) <= args.geo_limit

\* two names with different points were resolved by one call, the second
\* after the first
C12_Witness ==
    /\ op = "geocode_locations"
    /\ Len(result) = 2
    /\ result[1] # result[2]
    /\ result[1] = place_point(cache_key(args.names[1]))

\* C13: a provider failure never escapes geocode_locations: for every call
\* that raised or found nothing the failure sentinel is in the cache and no
\* point for that name is returned, and every name of the first `limit` was
\* still processed (its key is in the cache after the call).
C13_FailureCaughtAndCached ==
    /\ \A i \in 1..Len(log) :
          (log[i].e = "call" /\ log[i].out \in {"error", "notfound"})
          => /\ log[i].key \in DOMAIN GEOCODE_CACHE
             /\ GEOCODE_CACHE[log[i].key] = NoneV
             /\ op = "geocode_locations" => place_point(log[i].key) \notin Range(result)
    /\ op = "geocode_locations" => AttemptedKeys(args) \subseteq DOMAIN GEOCODE_CACHE

\* the call for the first name raised and the second name was still geocoded
C13_Witness ==
    /\ op = "geocode_locations"
    /\ Len(args.names) = 2
    /\ \E i, j \in 1..Len(log) :
          /\ i < j
          /\ log[i].e = "call" /\ log[i].out = "error"
          /\ log[i].key = cache_key(args.names[1])
          /\ log[j].e = "call" /\ log[j].out = "point"
          /\ log[j].key = cache_key(args.names[2])
    /\ Len(result) = 1

(***************************************************************************)
(* Claims about the location step                                          *)
(***************************************************************************)
AfterLocation == op = "ensure_document_has_location"

\* lower-cased, whitespace-collapsed, trimmed
NormalizedName(n) == Lower(Strip(CollapseWs(n)))

SuppliedGeo(doc) == existing_georeferences(doc) # <<>>

\* C2: after the location step no two entries of georeferences normalize to
\* the same key, whether they were supplied or extracted.
C2_NoNormalizedDuplicates ==
    AfterLocation =>
        \A i, j \in 1..Len(document.georeferences.l) :
            i # j => NormalizedName(document.georeferences.l[i])
                         # NormalizedName(document.georeferences.l[j])

\* C4 as stated: from-places whenever georeferences were supplied,
\* auto-extracted whenever they were derived from the text, default otherwise.
C4_SourceReflectsProvenance ==
    AfterLocation =>
        LET extracted == extract_all_locations(input.content \o input.title, NLP_AVAILABLE)
        IN  /\ SuppliedGeo(input) => document.location_source = Src("from-places")
            /\ (~SuppliedGeo(input) /\ extracted # <<>>)
                   => document.location_source = Src("auto-extracted")
            /\ (~SuppliedGeo(input) /\ extracted = <<>>)
                   => document.location_source = Src("default")

\* C4 amended: with supplied georeferences the location_source the caller
\* sent is kept, and it is from-places only when the caller sent none.
C4_SourceReflectsProvenanceUnlessSupplied ==
    AfterLocation =>
        LET extracted == extract_all_locations(input.content \o input.title, NLP_AVAILABLE)
        IN  /\ (SuppliedGeo(input) /\ input.location_source.p = "absent")
                   => document.location_source = Src("from-places")
            /\ (SuppliedGeo(input) /\ input.location_source.p # "absent")
                   => document.location_source = input.location_source
            /\ (~SuppliedGeo(input) /\ extracted # <<>>)
                   => document.location_source = Src("auto-extracted")
            /\ (~SuppliedGeo(input) /\ extracted = <<>>)
                   => document.location_source = Src("default")

\* a document that arrived with georeferences and its own location_source
C4_Witness ==
    /\ AfterLocation
    /\ SuppliedGeo(input)
    /\ input.location_source = Src("manual")
    /\ document.location_source = Src("manual")

\* C5: supplied location fields are never replaced by text-derived values:
\* supplied georeferences stay the list of names the caller sent, and a supplied
\* geopoint is still there after the step.
C5_SuppliedLocationKept ==
    AfterLocation =>
        /\ SuppliedGeo(input) =>
              Range(document.georeferences.l)
                  = { Strip(n) : n \in Range(existing_georeferences(input)) } \ { <<>> }
        /\ input.geopoint.p = "point" => document.geopoint = input.geopoint

(***************************************************************************)
(* Claims about the date step and the text extractors                      *)
(***************************************************************************)
AfterDate == op = "ensure_document_has_date"

\* YYYY-MM-DDTHH:MM:SS and nothing else
CanonicalForm(s) ==
    /\ Len(s) = 19
    /\ \A i \in {1, 2, 3, 4, 6, 7, 9, 10, 12, 13, 15, 16, 18, 19} : IsDigit(s[i])
    /\ s[5] = "-" /\ s[8] = "-" /\ s[11] = "T" /\ s[14] = ":" /\ s[17] = ":"

\* a fraction of a second: a dot and at least one digit
IsFraction(s) == Len(s) >= 2 /\ s[1] = "." /\ \A i \in 2..Len(s) : IsDigit(s[i])

\* Z or +HH:MM or -HH:MM
IsZone(s) ==
    \/ s = <<"Z">>
    \/ /\ Len(s) = 6 /\ s[1] \in {"+", "-"} /\ s[4] = ":"
       /\ \A i \in {2, 3, 5, 6} : IsDigit(s[i])

\* canonical, or canonical followed by a fraction, a zone, or both
CanonicalOrIsoWithSuffix(s) ==
    /\ Len(s) >= 19
    /\ CanonicalForm(SubSeq(s, 1, 19))
    /\ \E k \in 19..Len(s) :
          /\ k = 19 \/ IsFraction(SubSeq(s, 20, k))
          /\ k = Len(s) \/ IsZone(SubSeq(s, k + 1, Len(s)))

\* C3: after the date step the date field is absent or a canonical string, and
\* a date that arrived canonical or ISO with a suffix is cut to its first 19
\* characters.
C3_DateAbsentOrCanonical ==
    AfterDate =>
        /\ \/ document.date.p \in {"absent", "none"}
           \/ document.date.p = "str" /\ CanonicalForm(document.date.s)
        /\ (input.date.p = "str" /\ CanonicalOrIsoWithSuffix(input.date.s))
               => document.date = Str(SubSeq(input.date.s, 1, 19))

FullDateKinds == {"iso", "us", "month"}

\* the datetime a full-date token stands for
TokenDt(tok) == Dt(token_ymd(tok)[1], token_ymd(tok)[2], token_ymd(tok)[3], 0, 0, 0)

\* C6: for a document without a date the step scans title + " " + content; with
\* candidates, date is the latest of them in canonical form and extracted_dates
\* lists them all; without, date stays as it was and extracted_dates is empty.
C6_LatestCandidateChosen ==
    (AfterDate /\ ~date_supplied(input)) =>
        LET cands == parse_date_candidates_from_text(input.title \o input.content,
                                                     CANDIDATE_LIMIT)
        IN  IF cands # <<>>
            THEN /\ document.extracted_dates
                        = List([i \in 1..Len(cands) |-> strftime(cands[i])])
                 /\ \E i \in 1..Len(cands) :
                        /\ document.date = Str(strftime(cands[i]))
                        /\ \A j \in 1..Len(cands) : ~DtLess(cands[i], cands[j])
                 /\ document.date.s \in Range(document.extracted_dates.l)
            ELSE /\ document.date = input.date
                 /\ document.extracted_dates = List(<<>>)

\* the latest candidate is not the first one found
C6_Witness ==
    /\ AfterDate
    /\ ~date_supplied(input)
    /\ Len(document.extracted_dates.l) >= 2
    /\ document.date.s # document.extracted_dates.l[1]
    /\ document.date.s \in Range(document.extracted_dates.l)

\* every candidate is the date of a full-date mention of the text
CandidatesFromFullDates(text, cands) ==
    \A i \in 1..Len(cands) :
        \E j \in 1..Len(text) : text[j].k \in FullDateKinds /\ cands[i] = TokenDt(text[j])

\* every entry of extracted_dates, and the inferred date, is the canonical form
\* of a full-date mention of title + " " + content
ExtractedFromFullDates ==
    LET text == input.title \o input.content
        FromMention(str) ==
            \E j \in 1..Len(text) :
                text[j].k \in FullDateKinds /\ str = strftime(TokenDt(text[j]))
    IN  /\ \A i \in 1..Len(document.extracted_dates.l) :
               FromMention(document.extracted_dates.l[i])
        /\ document.date.p = "str" /\ document.date.s # <<>>
               => FromMention(document.date.s)

YearsKept ==
    \A j \in 1..Len(args.text) :
        args.text[j].k = "year" => Pad4(args.text[j].y) \in result

MentionedDays(text) ==
    { token_ymd(text[j]) : j \in { i \in 1..Len(text) :
          /\ text[i].k \in FullDateKinds
          /\ valid_date(token_ymd(text[i])[1], token_ymd(text[i])[2], token_ymd(text[i])[3]) } }

\* the place of a mention in the scan: ISO dates, then slash dates, then month names
ScanRank(text, j) ==
    (CASE text[j].k = "iso" -> 0 [] text[j].k = "us" -> 1 [] OTHER -> 2) * (Len(text) + 1) + j

FirstRank(text, day) ==
    LET ranks == { ScanRank(text, j) : j \in { i \in 1..Len(text) :
                       text[i].k \in FullDateKinds /\ token_ymd(text[i]) = day } }
    IN  CHOOSE r \in ranks : \A q \in ranks : r <= q

\* C8: the candidates are one per calendar day, in the order of first
\* occurrence, at most 10, and hold no invalid calendar date.
C8_CandidatesDedupedCapped ==
    op = "parse_date_candidates_from_text" =>
        LET text == args.text
            days == MentionedDays(text)
        IN  /\ Len(result) = Min(10, Cardinality(days))
            /\ \A i \in 1..Len(result) : date_key(result[i]) \in days
            /\ \A i, j \in 1..Len(result) :
                   i < j => FirstRank(text, date_key(result[i]))
                                < FirstRank(text, date_key(result[j]))
            /\ \A day \in days \ { date_key(result[i]) : i \in 1..Len(result) } :
                   \A i \in 1..Len(result) :
                       FirstRank(text, date_key(result[i])) < FirstRank(text, day)

\* the same day written twice, as an ISO date and as a slash date, is one candidate
C8_Witness ==
    /\ op = "parse_date_candidates_from_text"
    /\ \E i, j \in 1..Len(args.text) :
           /\ args.text[i].k = "iso" /\ args.text[j].k = "us"
           /\ token_ymd(args.text[i]) = token_ymd(args.text[j])
    /\ Len(result) = 1

\* the date that arrived matches none of the ISO forms and dateparser gave None
CannotBeNormalized(doc, parsed) ==
    \/ doc.date.p # "str"
    \/ ~CanonicalOrIsoWithSuffix(Strip(doc.date.s)) /\ parsed = NoDt

AfterSmartSearch == op = "smart_search"

\* the query that was sent to the engine and what the engine did with it
Sent == log[Len(log)].body
EngineDid == log[Len(log)].out

\* the document fields a clause looks at, nested clauses included
RECURSIVE ClauseFields(_)
ClauseFields(c) ==
    (IF c.field = "" THEN {} ELSE {c.field})
    \cup UNION { ClauseFields(c.should[i]) : i \in 1..Len(c.should) }

TextFields == {"title", "title.keyword", "content"}
TemporalFields == {"date", "temporal_expressions"}
GeoFields == {"georeferences", "georeferences.keyword"}

\* C14: in the query smart_search sends, the text clause is a must clause
\* exactly when a non-blank text was supplied; temporal and geographic clauses
\* are only among the should clauses, minimum_should_match is 0, and must and
\* filter hold no clause on a temporal or geographic field.
C14_OnlyTextRequired ==
    AfterSmartSearch =>
      /\ (Strip(args.query) # <<>>) <=> (Sent.must # <<>>)
      /\ Sent.must # <<>> =>
            /\ Len(Sent.must) = 1
            /\ Sent.must[1].kind = "bool" /\ Sent.must[1].msm = 1
            /\ ClauseFields(Sent.must[1]) = TextFields
            /\ \A i \in 1..Len(Sent.must[1].should) :
                  Sent.must[1].should[i].query = Strip(args.query)
      /\ Sent.filter = <<>>
      /\ Sent.msm = 0
      /\ \A i \in 1..Len(Sent.should) :
            ClauseFields(Sent.should[i]) \subseteq (TemporalFields \cup GeoFields)
      /\ (Strip(args.temporal_expression) # <<>>) <=>
            (\E i \in 1..Len(Sent.should) : ClauseFields(Sent.should[i]) \cap TemporalFields # {})
      /\ (Strip(args.georeference) # <<>>) <=>
            (\E i \in 1..Len(Sent.should) : ClauseFields(Sent.should[i]) \cap GeoFields # {})

\* a search with a text, a temporal hint and a geographic hint
C14_Witness ==
    /\ AfterSmartSearch
    /\ Len(Sent.must) = 1
    /\ \E i, j \in 1..Len(Sent.should) :
          /\ ClauseFields(Sent.should[i]) \cap TemporalFields # {}
          /\ ClauseFields(Sent.should[j]) \cap GeoFields # {}

\* midnight of a day as a canonical timestamp
Ts(y, m, d) == strftime(Dt(y, m, d, 0, 0, 0))

DayBoost(y, m, d, y2, m2, d2) ==
    ConstantScore(RangeClause("date", Ts(y, m, d), Ts(y2, m2, d2)), Boost(3, 0))

YearBoost(y, t) ==
    BoolShould(<<RangeClause("date", Ts(y, 1, 1), Ts(y + 1, 1, 1)),
                 Match("temporal_expressions", t, Boost(2, 0))>>, 1)

\* what each hint of the model means: a day, a year, or neither
ExpectedTemporal(t) ==
    CASE t = token_string(Iso(1987, 2, 26)) -> DayBoost(1987, 2, 26, 1987, 2, 27)
      [] t = token_string(Iso(1988, 2, 28)) -> DayBoost(1988, 2, 28, 1988, 2, 29)
      [] t = Pad2(2) \o SLASH \o Pad2(26) \o SLASH \o Pad4(1987) ->
             DayBoost(1987, 2, 26, 1987, 2, 27)
      [] t = token_string(Us(12, 31, Pad4(1999))) -> DayBoost(1999, 12, 31, 2000, 1, 1)
      [] t = Pad4(1987) -> YearBoost(1987, t)
      [] t = Pad4(987) -> YearBoost(987, t)
      [] OTHER -> Match("temporal_expressions", t, Boost(1, 5))

\* C15: a non-blank temporal hint gives exactly one temporal clause: for a
\* literal date the one-day range [date 00:00:00, next day 00:00:00) on the date
\* field as an optional boost, otherwise for a bare 4-digit year the OR of the
\* range covering that calendar year and a temporal_expressions match,
\* otherwise a temporal_expressions match only.
C15_TemporalHintForms ==
    (AfterSmartSearch /\ Strip(args.temporal_expression) # <<>>) =>
      LET temporal == SelectSeq(Sent.should,
                          LAMBDA c : ClauseFields(c) \cap TemporalFields # {})
      IN  temporal = <<ExpectedTemporal(Strip(args.temporal_expression))>>

\* the weight of a clause in the ranking
Weight(c) == IF c.boost = NoBoost THEN DEFAULT_BOOST ELSE c.boost

\* C16: for a bare 4-digit year hint the clause on the date range carries a
\* higher weight than the clause on temporal_expressions.
C16_YearRangeWeightedHigher ==
    (AfterSmartSearch /\ Len(Strip(args.temporal_expression)) = 4
        /\ AllDigits(Strip(args.temporal_expression), 1, 4)) =>
      \E i \in 1..Len(Sent.should) :
        /\ Sent.should[i].kind = "bool"
        /\ \E j, k \in 1..Len(Sent.should[i].should) :
              /\ Sent.should[i].should[j].kind = "range"
              /\ Sent.should[i].should[k].field = "temporal_expressions"
              /\ Weight(Sent.should[i].should[j]) > Weight(Sent.should[i].should[k])

\* the hits the engine returned, as the handler lists them
EngineHits == [i \in 1..Len(EngineDid.hits) |-> hit_result(EngineDid.hits[i])]

\* lower-cased, trimmed title; empty for a hit without a title, and a null
\* title reads None
NormalizedTitle(item) ==
    CASE item.title.p = "str" -> Strip(Lower(item.title.s))
      [] item.title.p = "none" -> <<"n", "o", "n", "e">>
      [] OTHER -> <<>>

\* the hits that are the first of the list with their normalized title
FirstOccurrences(hits) ==
    SelectSeq(hits, LAMBDA h :
        \A j \in 1..Len(hits) :
            (hits[j].id < h.id) => NormalizedTitle(hits[j]) # NormalizedTitle(h))

\* the first n entries of a list
Truncated(l, n) == SubSeq(l, 1, Min(n, Len(l)))

\* C17 (as stated): the smart-search result is the sequence of first
\* occurrences by normalized title, in the engine's order, truncated to the
\* result limit.
C17_FirstOccurrencesTruncated ==
    (AfterSmartSearch /\ EngineDid.ok) =>
      result.results = Truncated(FirstOccurrences(EngineHits), args.size)

\* C17 (amended): the result is the sequence of first occurrences by
\* normalized title among the hits whose normalized title is not empty, in the
\* engine's order, truncated to the result limit; a hit without a title or with
\* a blank title is not returned; no two results share a normalized title and
\* the length is at most the result limit.
C17_TitledFirstOccurrencesTruncated ==
    (AfterSmartSearch /\ EngineDid.ok) =>
      /\ result.results =
            Truncated(SelectSeq(FirstOccurrences(EngineHits),
                                LAMBDA h : NormalizedTitle(h) # <<>>), args.size)
      /\ \A i, j \in 1..Len(result.results) :
            i # j => NormalizedTitle(result.results[i]) # NormalizedTitle(result.results[j])
      /\ Len(result.results) <= args.size
      /\ result.total = Len(SelectSeq(FirstOccurrences(EngineHits),
                                      LAMBDA h : NormalizedTitle(h) # <<>>))

\* three hits, the second a case variant of the first: the first and the
\* third are the unique ones and a limit of 1 returns the first only
C17_Witness ==
    /\ AfterSmartSearch /\ EngineDid.ok
    /\ Len(EngineDid.hits) = 3
    /\ NormalizedTitle(EngineDid.hits[1]) = NormalizedTitle(EngineDid.hits[2])
    /\ EngineDid.hits[1].title # EngineDid.hits[2].title
    /\ result.total = 2
    /\ args.size = 1
    /\ Len(result.results) = 1 /\ result.results[1].id = 1

\* C18: when the call of the search engine fails, the failure reaches the
\* caller as that error: the engine was called once, the handler of main.py
\* answers with the error's text and no result list, and the method of the
\* query engine class lets the exception escape.
C18_EngineErrorSurfaced ==
    (op \in {"smart_search", "SmartQueryEngine.smart_search"} /\ ~EngineDid.ok) =>
      /\ Len(log) = 1
      /\ op = "smart_search" =>
            /\ ~result.success /\ result.status = 500
            /\ ~result.has_results /\ result.results = <<>>
            /\ result.error = EngineDid.error
      /\ op = "SmartQueryEngine.smart_search" =>
            /\ result.raised /\ result.results = <<>>
            /\ result.error = EngineDid.error

\* the engine rejected the query of a search with all three signals
C18_Witness ==
    /\ AfterSmartSearch
    /\ ~EngineDid.ok /\ EngineDid.error = "RequestError"
    /\ Len(Sent.must) = 1 /\ Len(Sent.should) = 3
    /\ ~result.success

(***************************************************************************)
(* Claims about applying a step again                                      *)
(***************************************************************************)
\* C19: each enrichment step is idempotent: applied a second time to its own
\* output, with the same text and the same answers of dateparser, the NER
\* service and the geocoder (names answered before are answered from the
\* cache), it leaves every field of the document unchanged.
C19_StepsIdempotent ==
    /\ op = "ensure_document_has_date" =>
          ensure_document_has_date(document, args.parsed) = document
    /\ op = "ensure_document_has_location" =>
          \A answers \in [step_keys(document, args.geo_limit, NLP_AVAILABLE) -> Outcomes] :
              ensure_document_has_location(document, args.do_geocode, args.geo_limit,
                  NLP_AVAILABLE, GEOCODE_CACHE, answers, answers).doc = document

(***************************************************************************)
(* Claims about the geo extractor                                          *)
(***************************************************************************)
\* the surface texts of the place spans of a text, as the NER service gave them
Surfaces(text) ==
    LET places == SelectSeq(text, LAMBDA tok : tok.k = "place")
    IN  [i \in 1..Len(places) |-> places[i].s]

\* the spans that are the first of the text with their (non-empty) key
FirstSeen(spans) ==
    { i \in 1..Len(spans) :
        /\ NormalizedName(spans[i]) # <<>>
        /\ \A j \in 1..(i - 1) : NormalizedName(spans[j]) # NormalizedName(spans[i]) }

\* C20: extract_all_locations returns, in first-seen order, one entry per
\* distinct lower-cased whitespace-collapsed key, each the first-seen surface
\* form with its whitespace collapsed and its casing kept; no two entries share
\* a key, and extracting again from its own output gives the same list.
C20_LocationsFirstSeenPerKey ==
    op = "extract_all_locations" =>
      LET spans == Surfaces(args.text)
          firsts == FirstSeen(spans)
      IN  IF ~NLP_AVAILABLE THEN result = <<>>
          ELSE /\ Len(result) = Cardinality(firsts)
               /\ \A i \in firsts :
                     result[Cardinality({ j \in firsts : j <= i })] = Strip(CollapseWs(spans[i]))
               /\ \A i, j \in 1..Len(result) :
                     i # j => NormalizedName(result[i]) # NormalizedName(result[j])
               /\ extract_all_locations([i \in 1..Len(result) |-> Place(result[i])], TRUE) = result

\* three spans, the third a variant of the first in case and spacing: two
\* entries, the first with the casing of the first span and one blank inside
C20_Witness ==
    /\ op = "extract_all_locations"
    /\ Len(Surfaces(args.text)) = 3
    /\ NormalizedName(Surfaces(args.text)[1]) = NormalizedName(Surfaces(args.text)[3])
    /\ Surfaces(args.text)[1] # Surfaces(args.text)[3]
    /\ Len(result) = 2
    /\ result[1] = <<"A", SP, "b">>

\* how many spans have the key of span i
KeyCount(spans, i) ==
    Cardinality({ j \in 1..Len(spans) : NormalizedName(spans[j]) = NormalizedName(spans[i]) })

\* C21: extract_most_frequent_location returns the first surface form (blanks
\* collapsed and trimmed) whose normalized key is the most frequent key among
\* the place spans, the key occurring first in scan order winning a tie; it
\* returns None when there are no place spans or no NER model.
C21_MostFrequentFirstSurface ==
    op = "extract_most_frequent_location" =>
      LET spans == Surfaces(args.text)
      IN  IF ~NLP_AVAILABLE \/ spans = <<>> THEN result = NoneStr
          ELSE \E i \in 1..Len(spans) :
                 /\ \A j \in 1..Len(spans) : KeyCount(spans, j) <= KeyCount(spans, i)
                 /\ \A j \in 1..(i - 1) : KeyCount(spans, j) < KeyCount(spans, i)
                 /\ result = Str(Strip(CollapseWs(spans[i])))

\* no key comes twice, so the keys tie, and the key seen first wins: the
\* surface of the first span is returned with its run of blanks collapsed
C21_Witness ==
    /\ op = "extract_most_frequent_location"
    /\ Len(Surfaces(args.text)) = 3
    /\ Surfaces(args.text)[1] = <<"A", SP, SP, "b">>
    /\ NormalizedName(Surfaces(args.text)[2]) = <<"a">>
    /\ \A i \in 1..3 : KeyCount(Surfaces(args.text), i) = 1
    /\ result = Str(<<"A", SP, "b">>)

(***************************************************************************)
(* Claims about the requests to index                                      *)
(***************************************************************************)
Indexing == op \in Routes

\* where in the history the event e of document k is
EventsOf(e, k) == { p \in 1..Len(log) : log[p].e = e /\ log[p].k = k }

C24_EnrichedOnceBeforeIndexed ==
    Indexing =>
      /\ \A k \in 1..Len(input) : \A s \in EventsOf("submit", k) :
            /\ Cardinality(EventsOf("date_step", k)) = 1
            /\ Cardinality(EventsOf("location_step", k)) = 1
            /\ \A d \in EventsOf("date_step", k), l \in EventsOf("location_step", k) :
                  d < l /\ l < s
      /\ \A p, q \in 1..Len(log) :
            (p < q /\ log[p].e = "submit") => log[q].e = "submit"
      /\ \A p, q \in 1..Len(log) :
            (p < q /\ log[p].e \in {"date_step", "location_step"}
                   /\ log[q].e \in {"date_step", "location_step"}) => log[p].k <= log[q].k
      /\ args.step = "done" =>
            /\ result = document
            /\ \A k \in 1..Len(input) : Cardinality(EventsOf("submit", k)) = 1

\* a batch of two documents was handed to the index, the first after the
\* second had been enriched with a call of the geocoder
C24_Witness ==
    /\ op = "bulk_index"
    /\ args.step = "done"
    /\ Len(result) = 2
    /\ result[1] # input[1] /\ result[2] # input[2]
    /\ \E p \in 1..Len(log) : log[p].e = "call" /\ log[p].k = 2

(***************************************************************************)
(* Claims about concurrent requests                                        *)
(***************************************************************************)
\* C23: with concurrent requests in geocode_locations every cache key is
\* written once: once a key holds a value, no step of any request replaces it
\* by a different value.
C23_CacheKeyWrittenOnce ==
    [][\A key \in DOMAIN GEOCODE_CACHE :
          key \in DOMAIN GEOCODE_CACHE' /\ GEOCODE_CACHE'[key] = GEOCODE_CACHE[key]]_vars

(***************************************************************************)
(* Claims about the temporal expressions of a text                         *)
(***************************************************************************)
\* the distinct elements of a sequence, each at its first position
RECURSIVE FirstDistinct(_, _)
FirstDistinct(seq, seen) ==
    IF seq = <<>> THEN <<>>
    ELSE IF Head(seq) \in seen THEN FirstDistinct(Tail(seq), seen)
    ELSE <<Head(seq)>> \o FirstDistinct(Tail(seq), seen \cup {Head(seq)})

FirstInScanOrder(text) ==
    LET found == FirstDistinct(temporal_matches(text), {})
    IN  { found[i] : i \in 1..Min(TEMPORAL_LIMIT, Len(found)) }

\* C25: extract_temporal_expressions returns at most 10 distinct expressions,
\* and of more than 10 distinct expressions of a text it keeps the first 10
\* in scan order (the pattern classes in their listed order).
C25_FirstTenInScanOrder ==
    op = "extract_temporal_expressions"
        => /\ Cardinality(result) <= TEMPORAL_LIMIT
           /\ result = FirstInScanOrder(args.text)

(***************************************************************************)
(* Claims about the year of a slash date                                   *)
(***************************************************************************)
\* the year the claim gives to the digits written after the second slash
WrittenYear(digits) ==
    IF Len(digits) = 2
    THEN (IF ToInt(digits) >= 50 THEN 1900 + ToInt(digits) ELSE 2000 + ToInt(digits))
    ELSE ToInt(digits)

SlashCandidate(tok) == Dt(WrittenYear(tok.s), tok.m, tok.d, 0, 0, 0)

\* C26: a slash date with a two-digit year yy yields the candidate of year
\* 1900+yy when yy >= 50 and 2000+yy when yy < 50, a year in 1950..2049, and
\* a slash date with a year of four digits yields the candidate of that year.
C26_TwoDigitYearWindow ==
    (op = "parse_date_candidates_from_text" /\ Len(args.text) <= MaxTextLen)
        => \A j \in 1..Len(args.text) :
               args.text[j].k = "us"
                   => /\ \E i \in 1..Len(result) : result[i] = SlashCandidate(args.text[j])
                      /\ Len(args.text[j].s) = 2
                             => WrittenYear(args.text[j].s) \in 1950..2049

\* the part of C26 about years written with two digits
C26_TwoDigitYearsOnly ==
    (op = "parse_date_candidates_from_text" /\ Len(args.text) <= MaxTextLen)
        => \A j \in 1..Len(args.text) :
               (args.text[j].k = "us" /\ Len(args.text[j].s) = 2)
                   => /\ \E i \in 1..Len(result) : result[i] = SlashCandidate(args.text[j])
                      /\ WrittenYear(args.text[j].s) \in 1950..2049

(***************************************************************************)
(* Claims about the text the location step reads                           *)
(***************************************************************************)
\* the title followed by the content
TitleFirst(doc) == doc.title \o doc.content

\* C27: when georeferences are extracted from the text, the extractor and the
\* most-frequent-location computation read the title followed by the
\* content: georeferences lists the places of the title before the places of
\* the content only, and the place looked up last for geopoint is the most
\* frequent one with ties going to the place of the title.
C27_TitleBeforeContent ==
    (AfterLocation /\ ~SuppliedGeo(input))
        => /\ document.georeferences.l = extract_all_locations(TitleFirst(input), NLP_AVAILABLE)
           /\ (args.do_geocode /\ document.georeferences.l # <<>>)
                  => /\ log # <<>>
                     /\ log[Len(log)].key =
                            cache_key(extract_most_frequent_location(TitleFirst(input),
                                                                     NLP_AVAILABLE).s)

(***************************************************************************)
(* Claims about the tag of an empty georeferences list                     *)
(***************************************************************************)
\* C28: after the location step on a document that arrived without a
\* location_source, georeferences is the empty list exactly when
\* location_source is "default"; supplied georeferences, blank entries
\* included, never end as an empty list tagged "from-places".
C28_EmptyIffDefault ==
    (AfterLocation /\ input.location_source = AbsentSrc)
        => /\ document.georeferences.l = <<>> <=> document.location_source = Src("default")
           /\ ~(document.georeferences.l = <<>> /\ document.location_source = Src("from-places"))

(***************************************************************************)
(* Claims about results without a title                                    *)
(***************************************************************************)
AfterResults == op \in {"smart_search", "autocomplete"} /\ result.success /\ log # <<>>

\* the title of a hit is missing, empty or made of whitespace only
Untitled(hit) == hit.title.p = "absent" \/ (hit.title.p = "str" /\ Strip(hit.title.s) = <<>>)

\* C29: no hit whose title is missing, empty or whitespace-only is among the
\* results of smart search or of autocomplete, so no result has an empty
\* normalized title, also when fewer results than the requested size remain.
C29_UntitledHitsDropped ==
    AfterResults =>
        /\ \A i \in 1..Len(EngineDid.hits) :
               Untitled(EngineDid.hits[i])
                   => \A j \in 1..Len(result.results) :
                          result.results[j].id # EngineDid.hits[i].id
        /\ \A j \in 1..Len(result.results) :
               /\ ~Untitled(result.results[j])
               /\ NormalizedTitle(result.results[j]) # <<>>

\* autocomplete of size 2 gets a hit without a title, a hit with a blank title
\* and a titled hit, and returns the titled hit alone
C29_Witness ==
    /\ AfterResults /\ op = "autocomplete"
    /\ args.size = 2
    /\ Len(EngineDid.hits) = 3
    /\ \E i, j \in 1..3 :
          /\ EngineDid.hits[i].title = AbsentStr
          /\ EngineDid.hits[j].title = Str(<<SP>>)
    /\ Len(result.results) = 1
    /\ result.results[1].title.p = "str"

(***************************************************************************)
(* Claims about the fields a step leaves alone                             *)
(***************************************************************************)
DateFields == {"date", "extracted_dates"}

LocationFields == {"georeferences", "location_source", "geo_points", "geopoint"}

\* the step just taken changed no field of the document outside fields
OnlyChanged(fields) ==
    \A f \in DOMAIN document \ fields : document'[f] = document[f]

\* the step just taken did not touch the geocoding service, its cache or the
\* geocoding fields
NoGeocoding ==
    /\ document'.geo_points = document.geo_points
    /\ document'.geopoint = document.geopoint
    /\ GEOCODE_CACHE' = GEOCODE_CACHE
    /\ \A k \in (Len(log) + 1)..Len(log') : log'[k].e = "ner"

\* C30: the date step leaves every field other than date and extracted_dates
\* unchanged; the location step leaves every field other than georeferences,
\* location_source, geo_points and geopoint unchanged; and when geocoding is
\* not requested or georeferences ends empty, the location step leaves
\* geo_points, geopoint and the geocode cache unchanged and makes no
\* geocoding call.
C30_StepsChangeOwnFields ==
    [][/\ op' = "ensure_document_has_date"
            => OnlyChanged(DateFields) /\ GEOCODE_CACHE' = GEOCODE_CACHE /\ log' = log
       /\ op' = "ensure_document_has_location"
            => /\ OnlyChanged(LocationFields)
               /\ (~args.do_geocode \/ document'.georeferences.l = <<>>) => NoGeocoding]_vars

\* a document with geo_points and a geopoint went through both steps without
\* geocoding: the date was taken from the text, the georeferences were
\* extracted, and the supplied geo_points and geopoint are still there
C30_Witness ==
    /\ op = "ensure_document_has_location"
    /\ ~args.do_geocode
    /\ input.date = AbsentStr /\ document.date.p = "str"
    /\ input.georeferences = AbsentGeo /\ document.georeferences.l # <<>>
    /\ input.geopoint = Pt(9, 9) /\ document.geopoint = Pt(9, 9)
    /\ input.geo_points = List(<<Pt(9, 9)>>) /\ document.geo_points = input.geo_points
    /\ document.title = input.title /\ document.title # <<>>
    /\ GEOCODE_CACHE = EmptyCache

====
